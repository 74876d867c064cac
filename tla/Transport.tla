----------------------------- MODULE Transport -----------------------------
(***************************************************************************)
(* fake/transport: messages on their way, each with the time at which it   *)
(* becomes deliverable.  transport.go keeps a slice in sending order; what *)
(* is due at one moment is handed over together and applying it does not   *)
(* depend on its order (AdvanceLoop), so the queue is a set.  The source   *)
(* of a message is the leader of its destination's partition and is never  *)
(* read.                                                                   *)
(***************************************************************************)
EXTENDS Integers

CONSTANTS
    MinDelay, MaxDelay,   \* Uniform.Min and Uniform.Max
    SlowNode, SlowFactor  \* Slow.Node and Slow.Factor; factor 1: no slow node

ASSUME TransportAssumption ==
    /\ MinDelay \in Nat
    /\ MaxDelay \in Nat
    /\ MinDelay <= MaxDelay
    /\ SlowFactor \in Nat \ {0}

VARIABLE q   \* the messages in flight

TransportInit == q = {}

\* Slow.Next around Uniform.Next.
FactorOf(destination) == IF destination.node = SlowNode THEN SlowFactor ELSE 1

DelaysTo(destination) == {n * FactorOf(destination) : n \in MinDelay..MaxDelay}

\* The longest time a message to the destination can take, and to any.
LongestTo(destination) == MaxDelay * FactorOf(destination)
LongestDelay == MaxDelay * SlowFactor

\* One independent draw per destination.
DelayChoices(destinations) ==
    {delay \in [destinations -> UNION {DelaysTo(d) : d \in destinations}] :
        \A d \in destinations : delay[d] \in DelaysTo(d)}

\* Faulty variant: positions counted from 0.
SendFromZero(time, destinations, position, record, delay) ==
    q' = q \cup {[at |-> time + delay[d], destination |-> d,
                  position |-> position - 1, record |-> record] : d \in destinations}

\* Faulty variant: the record is stamped with its time of arrival.
SendRestamped(time, destinations, position, record, delay) ==
    q' = q \cup {[at |-> time + delay[d], destination |-> d, position |-> position,
                  record |-> [record EXCEPT !.t = time + delay[d]]] : d \in destinations}

\* One Send per destination, all at the same moment.
Send(time, destinations, position, record, delay) ==
    q' = q \cup {[at |-> time + delay[d], destination |-> d,
                  position |-> position, record |-> record] : d \in destinations}

\* Faulty variant: what is due right now waits for the next tick.
DueLate(time) == {m \in q : m.at < time}

Due(time) == {m \in q : m.at <= time}

\* Faulty variant: what is due right now is delivered and kept.
DeliverUpToKeeping(time) == q' = {m \in q : m.at >= time}

DeliverUpTo(time) == q' = q \ Due(time)
=============================================================================
