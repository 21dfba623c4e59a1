----------------------------- MODULE GameStream -----------------------------
(***************************************************************************)
(* What a relayed game connection promises the two games it joins, however *)
(* many streams carry it (PROTOCOL.md 6.5, 6.7): each direction is a FIFO  *)
(* of bytes.  A byte is delivered once, in its place, or the connection    *)
(* ends; it ends in order only when a direction is complete.               *)
(***************************************************************************)
EXTENDS Naturals, Sequences

VARIABLES
    read,    \* [Sides -> Nat]: bytes a side's game gave; byte i is the number i
    taken,   \* [Sides -> Seq(Nat)]: bytes handed to a side's game
    reading, \* [Sides -> BOOLEAN]: more bytes may come from the game
    over     \* [Sides -> {"no", "ordered", "cut"}]

Sides == {"guest", "host"}
Other(s) == IF s = "guest" THEN "host" ELSE "guest"
vars == <<read, taken, reading, over>>

Init ==
    /\ read \in [Sides -> Nat]
    /\ taken = [s \in Sides |-> <<>>]
    /\ reading = [s \in Sides |-> TRUE]
    /\ over = [s \in Sides |-> "no"]

\* Everything the game of side s gave has reached the other game.
Complete(s) == ~reading[s] /\ Len(taken[Other(s)]) = read[s]

Read(s) ==
    /\ over[s] = "no" /\ reading[s]
    /\ read'[s] > read[s]
    /\ read' = [read EXCEPT ![s] = read'[s]]
    /\ UNCHANGED <<taken, reading, over>>

StopReading(s) ==
    /\ over[s] = "no" /\ reading[s]
    /\ reading' = [reading EXCEPT ![s] = FALSE]
    /\ UNCHANGED <<read, taken, over>>

\* The next bytes of the other game, up to what it gave.
Deliver(s) ==
    /\ over[s] = "no"
    /\ \E n \in (Len(taken[s]) + 1)..read[Other(s)] :
        taken' = [taken EXCEPT ![s] = [i \in 1..n |-> i]]
    /\ UNCHANGED <<read, reading, over>>

\* The peer's close may stop this side's reading in the same step.
EndInOrder(s) ==
    /\ over[s] = "no"
    /\ reading' = [reading EXCEPT ![s] = FALSE]
    /\ Complete(s) \/ Complete(Other(s))
    /\ over' = [over EXCEPT ![s] = "ordered"]
    /\ UNCHANGED <<read, taken>>

Cut(s) ==
    /\ over[s] = "no"
    /\ over' = [over EXCEPT ![s] = "cut"]
    /\ reading' \in {reading, [reading EXCEPT ![s] = FALSE]}
    /\ UNCHANGED <<read, taken>>

Next == \E s \in Sides : Read(s) \/ StopReading(s) \/ Deliver(s) \/ EndInOrder(s) \/ Cut(s)

Spec == Init /\ [][Next]_vars
=============================================================================
