-------------------------------- MODULE BTB --------------------------------
(* BTB.v: two ways per set, each a valid bit, a tag and a target.            *)
EXTENDS Integers

CONSTANT Sets       \* 512 in the code

VARIABLE cache      \* cache[set].way[1] is cache[set][107:54], way[2] [53:0]

Index(pc) == pc % Sets      \* pc[10:2]
Tag(pc) == pc \div Sets     \* pc[31:11]

Empty == [valid |-> FALSE, tag |-> 0, target |-> 0]

BTBInit ==
    cache = [s \in 0 .. Sets - 1 |->
                [lru |-> FALSE, way |-> [w \in 1 .. 2 |-> Empty]]]

tag_match(pc, w) == /\ cache[Index(pc)].way[w].valid
                    /\ cache[Index(pc)].way[w].tag = Tag(pc)

hit(if_pc) == tag_match(if_pc, 1) \/ tag_match(if_pc, 2)
alt_pc(if_pc) == IF tag_match(if_pc, 1) THEN cache[Index(if_pc)].way[1].target
                                        ELSE cache[Index(if_pc)].way[2].target

\* The way that a taken branch replaces.
Victim(past_pc) == IF cache[Index(past_pc)].lru THEN 2 ELSE 1

\* Bit 108 of a set: the assignment for the IF register is the last one and
\* wins where it meets the other; the set of the instruction in ID is toggled
\* on every edge, branch or not.
NextLru(s, if_pc, past_pc) ==
    CASE s = Index(if_pc) /\ tag_match(if_pc, 1) -> TRUE
      [] s = Index(if_pc) /\ ~tag_match(if_pc, 1) /\ tag_match(if_pc, 2) -> FALSE
      [] s # Index(if_pc) /\ s = Index(past_pc) -> ~cache[s].lru
      [] OTHER -> cache[s].lru

NextWay(s, w, past_pc, id_pc, alt_address, update) ==
    IF update /\ s = Index(past_pc) /\ w = Victim(past_pc)
    THEN [valid |-> TRUE, tag |-> Tag(id_pc), target |-> alt_address]
    ELSE cache[s].way[w]

\* Mutant: the set is that of the IF register.
BTBEdge_FetchSet(stall, if_pc, past_pc, id_pc, alt_address, update) ==
    IF stall THEN UNCHANGED cache
    ELSE cache' = [s \in 0 .. Sets - 1 |->
            [lru |-> NextLru(s, if_pc, past_pc),
             way |-> [w \in 1 .. 2 |->
                        NextWay(s, w, if_pc, id_pc, alt_address, update)]]]

BTBEdge(stall, if_pc, past_pc, id_pc, alt_address, update) ==
    IF stall THEN UNCHANGED cache
    ELSE cache' = [s \in 0 .. Sets - 1 |->
            [lru |-> NextLru(s, if_pc, past_pc),
             way |-> [w \in 1 .. 2 |->
                        NextWay(s, w, past_pc, id_pc, alt_address, update)]]]
=============================================================================
