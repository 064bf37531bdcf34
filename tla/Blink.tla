-------------------------------- MODULE Blink --------------------------------
(***************************************************************************)
(* The blinking characters of the fish program:                            *)
(*   fish/blink.S   the list of blinkers: add, remove, find, sync, and     *)
(*                  mp1_rtc_tasklet, called at each RTC interrupt          *)
(*   fish/fish.c    main, the pool of structures the list is made of       *)
(* The program makes any sequence of these calls.                          *)
(***************************************************************************)
EXTENDS Integers, Sequences

CONSTANTS
    POOL,        \* structures in blink_array, 80*25
    Locations,   \* places of the screen the program uses
    SCREEN,      \* places of the screen, 80*25
    Phases,      \* how long, in interrupts, blinkers are on and off
    Rules        \* {"distinct"}: no location is added twice

NULL == 0
Nodes == 1 .. POOL
\* What is left of a phase.
Counts == (UNION {1 .. p[1] : p \in Phases}) \cup (UNION {1 .. p[2] : p \in Phases})
\* A structure of zeros.
Empty == [location |-> 0, on_length |-> 0, off_length |-> 0,
          countdown |-> 0, status |-> 0, next |-> NULL]
\* On the screen: the structure's on_char, its off_char, or something older.
Shown == {"on", "off", "old"}

VARIABLES
    blink_array,
    mp1_list_head,
    screen,      \* what is shown at each place
    synced,      \* history: the last pair that was synced and still is there
    unlit        \* history: structures synced since their last change

vars == <<blink_array, mp1_list_head, screen, synced, unlit>>

\* The list from the head on, NULL where it ends; it may have a cycle.
Followed ==
    LET from[k \in 0 .. POOL] ==
            IF k = 0 THEN <<mp1_list_head>>
            ELSE LET s == from[k - 1]
                 IN  IF s[Len(s)] = NULL THEN s
                     ELSE Append(s, blink_array[s[Len(s)]].next)
    IN  from[POOL]
Ends == Followed[Len(Followed)] = NULL
List == LET s == Followed IN IF s[Len(s)] = NULL THEN SubSeq(s, 1, Len(s) - 1) ELSE s
Listed == {List[i] : i \in DOMAIN List}

TypeOK ==
    /\ \A n \in Nodes : /\ blink_array[n].location \in Locations \cup {0}
                        /\ blink_array[n].countdown \in IF n \in Listed THEN Counts ELSE {0}
                        /\ blink_array[n].status \in {0, 1}
                        /\ blink_array[n].next \in Nodes \cup {NULL}
    /\ mp1_list_head \in Nodes \cup {NULL}
    /\ screen \in [Locations -> Shown]

Init ==
    /\ blink_array = [n \in Nodes |-> Empty]     \* ece391_memset
    /\ mp1_list_head = NULL
    /\ screen = [l \in Locations |-> "old"]
    /\ synced = {} /\ unlit = {}
-----------------------------------------------------------------------------
(* The pool *)

\* A structure is free when its location is 0.
Free == {n \in Nodes : blink_array[n].location = 0}
mp1_malloc == IF Free = {} THEN NULL ELSE CHOOSE n \in Free : \A m \in Free : n <= m
-----------------------------------------------------------------------------
(* blink.S *)

\* The first of the list, which is what mp1_ioctl_find copies to the program.
mp1_find_helper(l) ==
    LET list == List
        at == {i \in DOMAIN list : blink_array[list[i]].location = l}
    IN  IF at = {} THEN NULL ELSE list[CHOOSE i \in at : \A j \in at : i <= j]

\* A call that fails returns -1 and changes nothing.
Fail == UNCHANGED vars

\* The structure is lit; it goes to the front of the list.
mp1_ioctl_add(l, on, off) ==
    LET n == mp1_malloc IN
    IF l >= SCREEN \/ n = NULL THEN Fail
    ELSE /\ blink_array' = [blink_array EXCEPT ![n] =
               [location |-> l, on_length |-> on, off_length |-> off,
                countdown |-> on, status |-> 1, next |-> mp1_list_head]]
         /\ mp1_list_head' = n
         /\ screen' = [screen EXCEPT ![l] = "on"]
         /\ unlit' = unlit \ {n}
         /\ UNCHANGED synced

\* [seeded fault] the structures before the one removed are dropped with it.
mp1_ioctl_remove_head(l) ==
    LET n == mp1_find_helper(l) IN
    IF n = NULL THEN Fail
    ELSE /\ mp1_list_head' = blink_array[n].next
         /\ blink_array' = [blink_array EXCEPT ![n] = Empty]
         /\ synced' = IF n \in synced THEN {} ELSE synced
         /\ UNCHANGED <<screen, unlit>>

\* The pointer to the structure, the head or a NEXT, is made to skip it; then it
\* is given back.  The character stays.
mp1_ioctl_remove(l) ==
    LET n == mp1_find_helper(l)
        after == blink_array[n].next
        previous == {m \in Listed : blink_array[m].next = n}
    IN
    IF n = NULL THEN Fail
    ELSE /\ mp1_list_head' = IF mp1_list_head = n THEN after ELSE mp1_list_head
         /\ blink_array' = [m \in Nodes |->
               IF m = n THEN Empty
               ELSE IF m \in previous THEN [blink_array[m] EXCEPT !.next = after]
               ELSE blink_array[m]]
         /\ synced' = IF n \in synced THEN {} ELSE synced
         /\ UNCHANGED <<screen, unlit>>

\* The lengths, the countdown and the status are copied from the first.  Then
\* testb clears the overflow and sign flags alike, so that cmovl never moves the
\* on_char: the off_char is shown.
mp1_ioctl_sync(l1, l2) ==
    LET a == mp1_find_helper(l1)
        b == mp1_find_helper(l2)
    IN
    IF a = NULL \/ b = NULL THEN Fail
    ELSE /\ blink_array' = [blink_array EXCEPT
               ![b].on_length = blink_array[a].on_length,
               ![b].off_length = blink_array[a].off_length,
               ![b].countdown = blink_array[a].countdown,
               ![b].status = blink_array[a].status]
         /\ screen' = [screen EXCEPT ![l2] = "off"]
         /\ synced' = {a, b}
         /\ unlit' = unlit \cup {b}
         /\ UNCHANGED mp1_list_head

\* One interrupt: the countdown goes down; at 0 the structure changes and counts
\* the length of the other phase.
Turn(s) ==
    IF s.countdown - 1 > 0 THEN [s EXCEPT !.countdown = @ - 1]
    ELSE [s EXCEPT !.countdown = IF s.status = 1 THEN s.off_length ELSE s.on_length,
                   !.status = 1 - @]

Changes(list) == {i \in DOMAIN list : Turn(blink_array[list[i]]).status
                                      # blink_array[list[i]].status}

\* Of those that change at a location the last in the list is what remains.
Drawn(l, list, changes) ==
    LET at == {i \in changes : blink_array[list[i]].location = l}
        last == CHOOSE i \in at : \A j \in at : j <= i
    IN  IF at = {} THEN screen[l]
        ELSE IF blink_array[list[last]].status = 1 THEN "off" ELSE "on"

mp1_rtc_tasklet ==
    LET list == List
        listed == {list[i] : i \in DOMAIN list}
        changes == Changes(list)
    IN
    /\ Ends
    /\ blink_array' = [n \in Nodes |-> IF n \in listed THEN Turn(blink_array[n])
                                       ELSE blink_array[n]]
    /\ screen' = [l \in Locations |-> Drawn(l, list, changes)]
    /\ unlit' = unlit \ {list[i] : i \in changes}
    /\ UNCHANGED <<mp1_list_head, synced>>
-----------------------------------------------------------------------------
(* fish.c's main *)

MayAdd(l) == "distinct" \in Rules => mp1_find_helper(l) = NULL

Next == \/ \E l \in Locations, p \in Phases : MayAdd(l) /\ mp1_ioctl_add(l, p[1], p[2])
        \/ \E l \in Locations : mp1_ioctl_remove(l)
        \/ \E l1, l2 \in Locations : mp1_ioctl_sync(l1, l2)
        \/ mp1_rtc_tasklet

Spec == Init /\ [][Next]_vars
-----------------------------------------------------------------------------
(* What must hold *)

\* The list ends, so that the tasklet does; it is made of the structures that are
\* taken, each once: none is given to two blinkers and none is lost.
ListSound ==
    /\ Ends
    /\ Listed = Nodes \ Free

\* A blinker that was synced blinks in step with the one it was synced to, for as
\* long as both are there and whatever else is added and removed.
StayInStep ==
    \A a, b \in synced : /\ blink_array[a].status = blink_array[b].status
                         /\ blink_array[a].countdown = blink_array[b].countdown

\* What the screen shows is what the structure says, from its first change on if
\* it was synced.
ShownUnlessSynced ==
    \A n \in Listed \ unlit :
        screen[blink_array[n].location] = IF blink_array[n].status = 1 THEN "on" ELSE "off"
=============================================================================
