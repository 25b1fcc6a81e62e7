------------------------------- MODULE WriteBus -------------------------------
(***************************************************************************)
(* What the write half of the interconnect promises: each master has at    *)
(* most one write outstanding; writes are served one at a time; a write to *)
(* a real slave takes effect there exactly once, with its own address and  *)
(* data, before it is answered; a write to anything else has no effect;    *)
(* and the answer goes to the master that asked, with the code its target  *)
(* calls for.                                                              *)
(***************************************************************************)
EXTENDS AddrMap

CONSTANTS Addr, Data, None

Masters == {"s0", "s1"}

VARIABLES
  bus,    \* bus[m]: the write of m, whether it took effect, and its answer
  store   \* store[s]: the last write that took effect at slave s

vars == <<bus, store>>

SlaveAnswer(s) == IF s = "ROM" THEN SLVERR ELSE OKAY

AnswerOf(t) == IF t = SLAVE_ERR THEN DECERR
               ELSE IF t = XBAR_CSR THEN SLVERR ELSE SlaveAnswer(t)

Idle == [req |-> None, done |-> FALSE, resp |-> None]

Requests == {[req |-> <<a, d>>, done |-> FALSE, resp |-> None] : a \in Addr, d \in Data}

Pending(m)  == bus[m].req # None /\ bus[m].resp = None
TargetOf(m) == decode_addr(bus[m].req[1])
Served(m)   == bus[m].done \/ bus[m].resp # None

Init ==
  /\ bus = [m \in Masters |-> Idle]
  /\ store = [s \in RealSlaves |-> None]

(* A master that is not being served may stay as it is or submit a write.  *)
Waits(m, b) == b = bus[m] \/ (bus[m] = Idle /\ b \in Requests)

(* The write of m takes effect; no other write is half way.                *)
Perform(m, b) ==
  /\ Pending(m) /\ ~bus[m].done /\ TargetOf(m) \in RealSlaves
  /\ \A n \in Masters : ~Served(n)
  /\ b = [bus[m] EXCEPT !.done = TRUE]
  /\ store' = IF TargetOf(m) = "ROM" THEN store
              ELSE [store EXCEPT ![TargetOf(m)] = bus[m].req]

Answer(m, b) ==
  /\ Pending(m) /\ (bus[m].done <=> TargetOf(m) \in RealSlaves)
  /\ \A n \in Masters \ {m} : ~Served(n)
  /\ b = [bus[m] EXCEPT !.resp = AnswerOf(TargetOf(m))]
  /\ store' = store

(* The master takes its answer; it may submit the next write at once.      *)
Finish(m, b) ==
  /\ bus[m].resp # None
  /\ b \in {Idle} \union Requests
  /\ store' = store

(* One master is served while the other waits.                             *)
Serve(m, b) == Perform(m, b) \/ Answer(m, b) \/ Finish(m, b)

Next ==
  \E m \in Masters :
    /\ Serve(m, bus'[m]) \/ (Waits(m, bus'[m]) /\ store' = store)
    /\ \A n \in Masters \ {m} : Waits(n, bus'[n])
    /\ DOMAIN bus' = Masters

Spec == Init /\ [][Next]_vars
=============================================================================
