------------------------------ MODULE CausalLog ------------------------------
(* What a secure room promises its devices: one log of accepted frames, which *)
(* grows at its end and is never rewritten, whose ordered frames are numbered *)
(* without gaps; a device reads it in order from the frame that admitted it,  *)
(* and misses no frame but a bootstrap of its own.                            *)
EXTENDS Integers, Sequences, FiniteSets

CONSTANTS Device, NoDevice, Members     \* Members: in the room from the start

VARIABLES log, seen                     \* the frames; the positions each device has read

Kind == {"application", "accept", "commit", "add", "remove", "bootstrap", "join-proof"}
Ordered(f) == f.kind \in {"application", "accept", "bootstrap", "join-proof"}
NextOrder == Cardinality({i \in DOMAIN log : Ordered(log[i])}) + 1

(* The frames d is to read: those after its own Add, if it was added.         *)
Readable(d) ==
    {i \in DOMAIN log :
        /\ log[i].from = d => log[i].kind # "bootstrap"
        /\ d \in Members \/ \E k \in 1..(i - 1) : log[k].kind = "add" /\ log[k].subject = d}

Init == log = <<>> /\ seen = [d \in Device |-> {}]

Publish ==
    /\ UNCHANGED seen
    /\ Len(log') = Len(log) + 1
    /\ \E f \in [kind : Kind, from : Device, subject : Device \cup {NoDevice},
                 order : {0, NextOrder}] :
          (Ordered(f) <=> f.order # 0) /\ log' = Append(log, f)

Read(d) ==
    /\ UNCHANGED log
    /\ seen[d] \subseteq seen'[d]
    /\ \E n \in DOMAIN log : seen' = [seen EXCEPT ![d] = {i \in Readable(d) : i <= n}]

Next == Publish \/ \E d \in Device : Read(d)

Spec == Init /\ [][Next]_<<log, seen>>
=============================================================================
