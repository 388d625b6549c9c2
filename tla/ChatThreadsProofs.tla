------------------------- MODULE ChatThreadsProofs -------------------------
(***************************************************************************)
(* For every number of turns and tokens: a turn publishes all its ids, no  *)
(* frame is shown in a message of another turn, and an interruption is     *)
(* reported as one.                                                        *)
(***************************************************************************)
EXTENDS ChatThreads, TLAPS

Closing == {"closeSignal", "closeWake", "join", "report", "called", "idle"}

At == {"wait", "woken", "look", "clear", "all", "push", "publish", "check", "exit"}

Publishers ==
    [ids : Nat, signals : Nat \cup {None}, wake : BOOLEAN, closing : BOOLEAN, callbackStop : BOOLEAN,
     hitEos : BOOLEAN, at : At, target : Nat, consumed : Nat, published : Nat]

\* What a publisher knows of its ids.
PublisherOK(p) ==
    /\ p.signals # None => p.signals <= p.ids
    /\ p.target <= p.ids /\ p.consumed <= p.ids
    /\ p.at # "publish" => p.published = p.consumed
    /\ p.at = "exit" => p.consumed = p.ids

\* The invariant: the consumer of the turn leaves only when the turn's ids are
\* final, and the consumers of earlier turns have left.
PubInv ==
    /\ turn \in 0 .. MaxTurns
    /\ new \in Nat
    /\ pub \in [Turns -> Publishers]
    /\ \A t \in Turns : PublisherOK(pub[t])
    /\ \A t \in Turns : t > turn => pub[t] = NewPublisher
    /\ \A t \in Turns : t < turn => pub[t].at = "exit"
    /\ worker # "idle" => turn \in Turns
    /\ \A t \in Turns : t = turn /\ pub[t].closing => worker \in Closing /\ call # "prefill"
    /\ \A t \in Turns : t = turn /\ pub[t].at = "exit" => pub[t].closing
    /\ worker = "called" => call \in {"prefill", "done", "error"}
    /\ call # None => worker = "called"
    /\ \A t \in Turns :
         t = turn /\ (worker \in {"report", "idle"} \/ call \in {"done", "error"}) => pub[t].at = "exit"
-----------------------------------------------------------------------------
\* A fresh publisher has no ids and waits.
LEMMA NewOK ==
    /\ NewPublisher \in Publishers /\ PublisherOK(NewPublisher)
    /\ NewPublisher.at = "wait" /\ ~NewPublisher.closing
  BY DEF NewPublisher, Publishers, PublisherOK, At

\* What Start keeps of a publisher whose consumer has left.
LEMMA LeftOK ==
    /\ [NewPublisher EXCEPT !.at = "exit"] \in Publishers
    /\ PublisherOK([NewPublisher EXCEPT !.at = "exit"])
    /\ [NewPublisher EXCEPT !.at = "exit"].at = "exit"
  <1>1. [NewPublisher EXCEPT !.at = "exit"] \in Publishers
      BY NewOK DEF Publishers, At
  <1>2. PublisherOK([NewPublisher EXCEPT !.at = "exit"])
      BY DEF NewPublisher, PublisherOK
  <1> QED  BY <1>1, <1>2 DEF NewPublisher

\* The invariant holds before the first turn.
LEMMA InitPubInv == Init => PubInv
  <1> SUFFICES ASSUME Init PROVE PubInv
      OBVIOUS
  <1>1. turn = 0 /\ new = 0 /\ worker = "idle" /\ call = None /\ pub = [t \in Turns |-> NewPublisher]
      BY DEF Init
  <1>2. MaxTurns \in Nat /\ \A t \in Turns : t \in Nat /\ t > 0
      BY ChatThreadsAssumption DEF ChatThreadsAssumption, Turns
  <1> QED  BY <1>1, <1>2, NewOK DEF PubInv

\* A field of a publisher is assigned.
LEMMA Setters ==
    ASSUME NEW p \in Publishers
    PROVE  /\ \A a \in At : [p EXCEPT !.at = a] \in Publishers
           /\ \A n \in Nat : [p EXCEPT !.ids = n] \in Publishers
           /\ \A n \in Nat : [p EXCEPT !.target = n] \in Publishers
           /\ \A n \in Nat : [p EXCEPT !.consumed = n] \in Publishers
           /\ \A n \in Nat : [p EXCEPT !.published = n] \in Publishers
           /\ \A n \in Nat \cup {None} : [p EXCEPT !.signals = n] \in Publishers
           /\ \A b \in BOOLEAN : [p EXCEPT !.wake = b] \in Publishers
           /\ \A b \in BOOLEAN : [p EXCEPT !.closing = b] \in Publishers
           /\ \A b \in BOOLEAN : [p EXCEPT !.hitEos = b] \in Publishers
           /\ \A b \in BOOLEAN : [p EXCEPT !.callbackStop = b] \in Publishers
  <1>1. \A a \in At : [p EXCEPT !.at = a] \in Publishers
      BY DEF Publishers
  <1>2. \A n \in Nat : [p EXCEPT !.ids = n] \in Publishers
      BY DEF Publishers
  <1>3. \A n \in Nat : [p EXCEPT !.target = n] \in Publishers
      BY DEF Publishers
  <1>4. \A n \in Nat : [p EXCEPT !.consumed = n] \in Publishers
      BY DEF Publishers
  <1>5. \A n \in Nat : [p EXCEPT !.published = n] \in Publishers
      BY DEF Publishers
  <1>6. \A n \in Nat \cup {None} : [p EXCEPT !.signals = n] \in Publishers
      BY DEF Publishers
  <1>7. \A b \in BOOLEAN : [p EXCEPT !.wake = b] \in Publishers
      BY DEF Publishers
  <1>8. \A b \in BOOLEAN : [p EXCEPT !.closing = b] \in Publishers
      BY DEF Publishers
  <1>9. \A b \in BOOLEAN : [p EXCEPT !.hitEos = b] \in Publishers
      BY DEF Publishers
  <1>10. \A b \in BOOLEAN : [p EXCEPT !.callbackStop = b] \in Publishers
      BY DEF Publishers
  <1> QED  BY <1>1, <1>2, <1>3, <1>4, <1>5, <1>6, <1>7, <1>8, <1>9, <1>10

\* The turn's publisher is replaced by another one whose at and closing obey
\* what the threads agree on; the turn and its worker go on.
LEMMA Replaced ==
    ASSUME PubInv, NEW to \in Publishers, turn \in Turns, PublisherOK(to),
           pub' = [pub EXCEPT ![turn] = to], turn' = turn, new' \in Nat,
           worker' # "idle", worker' # "report", worker' # "called", call' = None,
           to.closing => worker' \in Closing,
           to.at = "exit" => to.closing
    PROVE  PubInv'
  <1>1. pub' \in [Turns -> Publishers] /\ \A t \in Turns : pub'[t] = IF t = turn THEN to ELSE pub[t]
      BY DEF PubInv
  <1>2. \A t \in Turns : PublisherOK(pub'[t])
      BY <1>1 DEF PubInv
  <1>3. turn \in Nat /\ \A t \in Turns : t \in Nat
      BY ChatThreadsAssumption DEF PubInv, Turns, ChatThreadsAssumption
  <1>4. \A t \in Turns : (t > turn => pub'[t] = NewPublisher) /\ (t < turn => pub'[t].at = "exit")
      BY <1>1, <1>3 DEF PubInv
  <1>5. \A t \in Turns : t = turn => pub'[t] = to
      BY <1>1
  <1>6. call' # "prefill" /\ call' # "done" /\ call' # "error"
      BY ChatThreadsAssumption DEF ChatThreadsAssumption
  <1> QED  BY <1>1, <1>2, <1>4, <1>5, <1>6 DEF PubInv

-----------------------------------------------------------------------------
(* The consumer.                                                           *)

\* Publisher p may become to by a step of its consumer.
Follows(p, to) ==
    /\ to \in Publishers /\ PublisherOK(to)
    /\ to.closing <=> p.closing
    /\ to.at = "exit" => to.closing

\* A step of the turn's consumer preserves the invariant.
LEMMA ConsumerReplaced ==
    ASSUME PubInv, NEW t \in Turns, t = turn, pub[t].at # "exit", NEW to, Follows(pub[t], to),
           pub' = [pub EXCEPT ![t] = to], Others
    PROVE  PubInv'
  <1>1. pub' \in [Turns -> Publishers] /\ \A u \in Turns : pub'[u] = IF u = turn THEN to ELSE pub[u]
      BY DEF PubInv, Follows
  <1>2. \A u \in Turns : PublisherOK(pub'[u])
      BY <1>1 DEF PubInv, Follows
  <1>3. turn \in Nat /\ \A u \in Turns : u \in Nat
      BY ChatThreadsAssumption DEF PubInv, Turns, ChatThreadsAssumption
  <1>4. \A u \in Turns : (u > turn => pub'[u] = NewPublisher) /\ (u < turn => pub'[u].at = "exit")
      BY <1>1, <1>3 DEF PubInv
  <1>5. \A u \in Turns : u = turn => pub'[u] = to
      BY <1>1
  <1>6. turn' = turn /\ new' = new /\ call' = call /\ worker' = worker
      BY DEF Others, ui, decode
  <1>7. ~(worker \in {"report", "idle"} \/ call \in {"done", "error"})
      BY DEF PubInv
  <1>8. to.closing => worker \in Closing /\ call # "prefill"
      BY DEF PubInv, Follows
  <1> QED  BY <1>1, <1>2, <1>4, <1>5, <1>6, <1>7, <1>8 DEF PubInv, Follows

\* Only the consumer of the present turn takes steps, and it has not left.
LEMMA ConsumerOfTurn ==
    ASSUME PubInv, NEW t \in Turns, Consumer(t)
    PROVE  t = turn /\ pub[t].at # "exit"
  <1>1. t <= turn /\ pub[t].at # "exit"
      BY DEF Consumer, Goes, Wakes, ClearsWake, Pops, Clears, TakesAll, Pushes, Publishes, Checks
  <1>2. t \in Nat /\ turn \in Nat /\ (t < turn => pub[t].at = "exit")
      BY ChatThreadsAssumption DEF ChatThreadsAssumption, PubInv, Turns
  <1> QED  BY <1>1, <1>2

\* The consumer wakes.
LEMMA Woken ==
    ASSUME NEW p \in Publishers, PublisherOK(p), p.at = "wait"
    PROVE  Follows(p, [p EXCEPT !.at = "woken"])
  <1> DEFINE to == [p EXCEPT !.at = "woken"]
  <1>1. /\ p.ids \in Nat /\ p.target \in Nat /\ p.consumed \in Nat /\ p.published \in Nat
        /\ p.signals \in Nat \cup {None} /\ p.closing \in BOOLEAN
      BY DEF Publishers
  <1>2. to \in Publishers
      BY Setters DEF At
  <1>3. /\ to.ids = p.ids
        /\ to.signals = p.signals
        /\ to.target = p.target
        /\ to.consumed = p.consumed
        /\ to.published = p.published
        /\ to.closing = p.closing
        /\ to.at = "woken"
      BY DEF Publishers
  <1> HIDE DEF to
  <1>4. PublisherOK(to)
      BY <1>1, <1>3 DEF PublisherOK
  <1>5. Follows(p, to)
      BY <1>1, <1>2, <1>3, <1>4 DEF Follows
  <1> QED  BY <1>5 DEF to

\* It clears the event.
LEMMA Cleared ==
    ASSUME NEW p \in Publishers, PublisherOK(p), p.at = "woken"
    PROVE  Follows(p, [p EXCEPT !.wake = FALSE, !.at = "look"])
  <1> DEFINE to == [p EXCEPT !.wake = FALSE, !.at = "look"]
  <1>1. /\ p.ids \in Nat /\ p.target \in Nat /\ p.consumed \in Nat /\ p.published \in Nat
        /\ p.signals \in Nat \cup {None} /\ p.closing \in BOOLEAN
      BY DEF Publishers
  <1>2. to \in Publishers
    <2>1. [[p EXCEPT !.wake = FALSE] EXCEPT !.at = "look"] \in Publishers
        BY <1>1, Setters DEF At
    <2>2. to = [[p EXCEPT !.wake = FALSE] EXCEPT !.at = "look"]
        BY DEF Publishers
    <2> QED  BY <2>1, <2>2
  <1>3. /\ to.ids = p.ids
        /\ to.signals = p.signals
        /\ to.target = p.target
        /\ to.consumed = p.consumed
        /\ to.published = p.published
        /\ to.closing = p.closing
        /\ to.at = "look"
      BY DEF Publishers
  <1> HIDE DEF to
  <1>4. PublisherOK(to)
      BY <1>1, <1>3 DEF PublisherOK
  <1>5. Follows(p, to)
      BY <1>1, <1>2, <1>3, <1>4 DEF Follows
  <1> QED  BY <1>5 DEF to

\* It takes the signal it sees, which is at most the ids submitted.
LEMMA Popped ==
    ASSUME NEW p \in Publishers, PublisherOK(p), p.at = "look" /\ p.signals # None
    PROVE  Follows(p, [p EXCEPT !.target = p.signals, !.signals = None, !.at = "clear"])
  <1> DEFINE to == [p EXCEPT !.target = p.signals, !.signals = None, !.at = "clear"]
  <1>1. /\ p.ids \in Nat /\ p.target \in Nat /\ p.consumed \in Nat /\ p.published \in Nat
        /\ p.signals \in Nat \cup {None} /\ p.closing \in BOOLEAN
      BY DEF Publishers
  <1>2. to \in Publishers
    <2>1. [[[p EXCEPT !.target = p.signals] EXCEPT !.signals = None] EXCEPT !.at = "clear"] \in Publishers
        BY <1>1, Setters DEF At
    <2>2. to = [[[p EXCEPT !.target = p.signals] EXCEPT !.signals = None] EXCEPT !.at = "clear"]
        BY DEF Publishers
    <2> QED  BY <2>1, <2>2
  <1>3. /\ to.ids = p.ids
        /\ to.signals = None
        /\ to.target = p.signals
        /\ to.consumed = p.consumed
        /\ to.published = p.published
        /\ to.closing = p.closing
        /\ to.at = "clear"
      BY DEF Publishers
  <1> HIDE DEF to
  <1>4. PublisherOK(to)
      BY <1>1, <1>3 DEF PublisherOK
  <1>5. Follows(p, to)
      BY <1>1, <1>2, <1>3, <1>4 DEF Follows
  <1> QED  BY <1>5 DEF to

\* It finds no signal.
LEMMA Empty ==
    ASSUME NEW p \in Publishers, PublisherOK(p), p.at = "look"
    PROVE  Follows(p, [p EXCEPT !.at = "all"])
  <1> DEFINE to == [p EXCEPT !.at = "all"]
  <1>1. /\ p.ids \in Nat /\ p.target \in Nat /\ p.consumed \in Nat /\ p.published \in Nat
        /\ p.signals \in Nat \cup {None} /\ p.closing \in BOOLEAN
      BY DEF Publishers
  <1>2. to \in Publishers
      BY Setters DEF At
  <1>3. /\ to.ids = p.ids
        /\ to.signals = p.signals
        /\ to.target = p.target
        /\ to.consumed = p.consumed
        /\ to.published = p.published
        /\ to.closing = p.closing
        /\ to.at = "all"
      BY DEF Publishers
  <1> HIDE DEF to
  <1>4. PublisherOK(to)
      BY <1>1, <1>3 DEF PublisherOK
  <1>5. Follows(p, to)
      BY <1>1, <1>2, <1>3, <1>4 DEF Follows
  <1> QED  BY <1>5 DEF to

\* It empties the deque, whatever came since.
LEMMA Emptied ==
    ASSUME NEW p \in Publishers, PublisherOK(p), p.at = "clear"
    PROVE  Follows(p, [p EXCEPT !.signals = None, !.at = "push"])
  <1> DEFINE to == [p EXCEPT !.signals = None, !.at = "push"]
  <1>1. /\ p.ids \in Nat /\ p.target \in Nat /\ p.consumed \in Nat /\ p.published \in Nat
        /\ p.signals \in Nat \cup {None} /\ p.closing \in BOOLEAN
      BY DEF Publishers
  <1>2. to \in Publishers
    <2>1. [[p EXCEPT !.signals = None] EXCEPT !.at = "push"] \in Publishers
        BY <1>1, Setters DEF At
    <2>2. to = [[p EXCEPT !.signals = None] EXCEPT !.at = "push"]
        BY DEF Publishers
    <2> QED  BY <2>1, <2>2
  <1>3. /\ to.ids = p.ids
        /\ to.signals = None
        /\ to.target = p.target
        /\ to.consumed = p.consumed
        /\ to.published = p.published
        /\ to.closing = p.closing
        /\ to.at = "push"
      BY DEF Publishers
  <1> HIDE DEF to
  <1>4. PublisherOK(to)
      BY <1>1, <1>3 DEF PublisherOK
  <1>5. Follows(p, to)
      BY <1>1, <1>2, <1>3, <1>4 DEF Follows
  <1> QED  BY <1>5 DEF to

\* Without a signal it takes all ids.
LEMMA Taken ==
    ASSUME NEW p \in Publishers, PublisherOK(p), p.at = "all"
    PROVE  Follows(p, [p EXCEPT !.target = p.ids, !.at = "push"])
  <1> DEFINE to == [p EXCEPT !.target = p.ids, !.at = "push"]
  <1>1. /\ p.ids \in Nat /\ p.target \in Nat /\ p.consumed \in Nat /\ p.published \in Nat
        /\ p.signals \in Nat \cup {None} /\ p.closing \in BOOLEAN
      BY DEF Publishers
  <1>2. to \in Publishers
    <2>1. [[p EXCEPT !.target = p.ids] EXCEPT !.at = "push"] \in Publishers
        BY <1>1, Setters DEF At
    <2>2. to = [[p EXCEPT !.target = p.ids] EXCEPT !.at = "push"]
        BY DEF Publishers
    <2> QED  BY <2>1, <2>2
  <1>3. /\ to.ids = p.ids
        /\ to.signals = p.signals
        /\ to.target = p.ids
        /\ to.consumed = p.consumed
        /\ to.published = p.published
        /\ to.closing = p.closing
        /\ to.at = "push"
      BY DEF Publishers
  <1> HIDE DEF to
  <1>4. PublisherOK(to)
      BY <1>1, <1>3 DEF PublisherOK
  <1>5. Follows(p, to)
      BY <1>1, <1>2, <1>3, <1>4 DEF Follows
  <1> QED  BY <1>5 DEF to

\* It decodes up to its target.
LEMMA Pushed ==
    ASSUME NEW p \in Publishers, PublisherOK(p), p.at = "push" /\ p.target > p.consumed
    PROVE  Follows(p, [p EXCEPT !.consumed = p.target, !.at = "publish"])
  <1> DEFINE to == [p EXCEPT !.consumed = p.target, !.at = "publish"]
  <1>1. /\ p.ids \in Nat /\ p.target \in Nat /\ p.consumed \in Nat /\ p.published \in Nat
        /\ p.signals \in Nat \cup {None} /\ p.closing \in BOOLEAN
      BY DEF Publishers
  <1>2. to \in Publishers
    <2>1. [[p EXCEPT !.consumed = p.target] EXCEPT !.at = "publish"] \in Publishers
        BY <1>1, Setters DEF At
    <2>2. to = [[p EXCEPT !.consumed = p.target] EXCEPT !.at = "publish"]
        BY DEF Publishers
    <2> QED  BY <2>1, <2>2
  <1>3. /\ to.ids = p.ids
        /\ to.signals = p.signals
        /\ to.target = p.target
        /\ to.consumed = p.target
        /\ to.published = p.published
        /\ to.closing = p.closing
        /\ to.at = "publish"
      BY DEF Publishers
  <1> HIDE DEF to
  <1>4. PublisherOK(to)
      BY <1>1, <1>3 DEF PublisherOK
  <1>5. Follows(p, to)
      BY <1>1, <1>2, <1>3, <1>4 DEF Follows
  <1> QED  BY <1>5 DEF to

\* Its target is already decoded.
LEMMA Nothing ==
    ASSUME NEW p \in Publishers, PublisherOK(p), p.at = "push"
    PROVE  Follows(p, [p EXCEPT !.at = "check"])
  <1> DEFINE to == [p EXCEPT !.at = "check"]
  <1>1. /\ p.ids \in Nat /\ p.target \in Nat /\ p.consumed \in Nat /\ p.published \in Nat
        /\ p.signals \in Nat \cup {None} /\ p.closing \in BOOLEAN
      BY DEF Publishers
  <1>2. to \in Publishers
      BY Setters DEF At
  <1>3. /\ to.ids = p.ids
        /\ to.signals = p.signals
        /\ to.target = p.target
        /\ to.consumed = p.consumed
        /\ to.published = p.published
        /\ to.closing = p.closing
        /\ to.at = "check"
      BY DEF Publishers
  <1> HIDE DEF to
  <1>4. PublisherOK(to)
      BY <1>1, <1>3 DEF PublisherOK
  <1>5. Follows(p, to)
      BY <1>1, <1>2, <1>3, <1>4 DEF Follows
  <1> QED  BY <1>5 DEF to

\* It gives the text to on_text.
LEMMA Shown ==
    ASSUME NEW p \in Publishers, PublisherOK(p), p.at = "publish", NEW b \in BOOLEAN
    PROVE  Follows(p, [p EXCEPT !.published = p.consumed, !.at = "check", !.callbackStop = b])
  <1> DEFINE to == [p EXCEPT !.published = p.consumed, !.at = "check", !.callbackStop = b]
  <1>1. /\ p.ids \in Nat /\ p.target \in Nat /\ p.consumed \in Nat /\ p.published \in Nat
        /\ p.signals \in Nat \cup {None} /\ p.closing \in BOOLEAN
      BY DEF Publishers
  <1>2. to \in Publishers
    <2>1. [[[p EXCEPT !.published = p.consumed] EXCEPT !.at = "check"] EXCEPT !.callbackStop = b] \in Publishers
        BY <1>1, Setters DEF At
    <2>2. to = [[[p EXCEPT !.published = p.consumed] EXCEPT !.at = "check"] EXCEPT !.callbackStop = b]
        BY DEF Publishers
    <2> QED  BY <2>1, <2>2
  <1>3. /\ to.ids = p.ids
        /\ to.signals = p.signals
        /\ to.target = p.target
        /\ to.consumed = p.consumed
        /\ to.published = p.consumed
        /\ to.closing = p.closing
        /\ to.at = "check"
      BY DEF Publishers
  <1> HIDE DEF to
  <1>4. PublisherOK(to)
      BY <1>1, <1>3 DEF PublisherOK
  <1>5. Follows(p, to)
      BY <1>1, <1>2, <1>3, <1>4 DEF Follows
  <1> QED  BY <1>5 DEF to

\* It leaves when the publisher is closing and every id is decoded.
LEMMA Checked ==
    ASSUME NEW p \in Publishers, PublisherOK(p), p.at = "check"
    PROVE  Follows(p, [p EXCEPT !.at = IF Finished(p) THEN "exit" ELSE "wait"])
  <1> DEFINE to == [p EXCEPT !.at = IF Finished(p) THEN "exit" ELSE "wait"]
  <1>1. /\ p.ids \in Nat /\ p.target \in Nat /\ p.consumed \in Nat /\ p.published \in Nat
        /\ p.signals \in Nat \cup {None} /\ p.closing \in BOOLEAN
      BY DEF Publishers
  <1>2. to \in Publishers
      BY Setters DEF At, Finished
  <1>3. /\ to.ids = p.ids
        /\ to.signals = p.signals
        /\ to.target = p.target
        /\ to.consumed = p.consumed
        /\ to.published = p.published
        /\ to.closing = p.closing
        /\ to.at = IF Finished(p) THEN "exit" ELSE "wait"
      BY DEF Publishers
  <1> HIDE DEF to
  <1>4. PublisherOK(to)
      BY <1>1, <1>3 DEF PublisherOK, Finished
  <1>5. Follows(p, to)
      BY <1>1, <1>2, <1>3, <1>4 DEF Follows, Finished
  <1> QED  BY <1>5 DEF to

\* So does every step of _run.
LEMMA ConsumerStep ==
    ASSUME PubInv, NEW t \in Turns, Consumer(t)
    PROVE  PubInv'
  <1> DEFINE p == pub[t]
  <1>1. t = turn /\ p.at # "exit" /\ p \in Publishers /\ PublisherOK(p)
      BY ConsumerOfTurn DEF PubInv
  <1>2. CASE Wakes(t)
    <2> DEFINE to == [p EXCEPT !.at = "woken"]
    <2>1. pub' = [pub EXCEPT ![t] = to] /\ Others
        BY <1>2 DEF Wakes, Goes
    <2>2. Follows(p, to)
        BY <1>1, <1>2, Woken DEF Wakes, Goes
    <2> HIDE DEF to
    <2> QED  BY <1>1, <2>1, <2>2, ConsumerReplaced
  <1>3. CASE ClearsWake(t)
    <2> DEFINE to == [p EXCEPT !.wake = FALSE, !.at = "look"]
    <2>1. pub' = [pub EXCEPT ![t] = to] /\ Others
        BY <1>3 DEF ClearsWake, Goes
    <2>2. Follows(p, to)
        BY <1>1, <1>3, Cleared DEF ClearsWake, Goes
    <2> HIDE DEF to
    <2> QED  BY <1>1, <2>1, <2>2, ConsumerReplaced
  <1>4. CASE Pops(t) /\ p.signals # None
    <2> DEFINE to == [p EXCEPT !.target = p.signals, !.signals = None, !.at = "clear"]
    <2>1. pub' = [pub EXCEPT ![t] = to] /\ Others
        BY <1>4 DEF Pops, Goes
    <2>2. Follows(p, to)
        BY <1>1, <1>4, Popped DEF Pops, Goes
    <2> HIDE DEF to
    <2> QED  BY <1>1, <2>1, <2>2, ConsumerReplaced
  <1>5. CASE Pops(t) /\ p.signals = None
    <2> DEFINE to == [p EXCEPT !.at = "all"]
    <2>1. pub' = [pub EXCEPT ![t] = to] /\ Others
        BY <1>5 DEF Pops, Goes
    <2>2. Follows(p, to)
        BY <1>1, <1>5, Empty DEF Pops, Goes
    <2> HIDE DEF to
    <2> QED  BY <1>1, <2>1, <2>2, ConsumerReplaced
  <1>6. CASE Clears(t)
    <2> DEFINE to == [p EXCEPT !.signals = None, !.at = "push"]
    <2>1. pub' = [pub EXCEPT ![t] = to] /\ Others
        BY <1>6 DEF Clears, Goes
    <2>2. Follows(p, to)
        BY <1>1, <1>6, Emptied DEF Clears, Goes
    <2> HIDE DEF to
    <2> QED  BY <1>1, <2>1, <2>2, ConsumerReplaced
  <1>7. CASE TakesAll(t)
    <2> DEFINE to == [p EXCEPT !.target = p.ids, !.at = "push"]
    <2>1. pub' = [pub EXCEPT ![t] = to] /\ Others
        BY <1>7 DEF TakesAll, Goes
    <2>2. Follows(p, to)
        BY <1>1, <1>7, Taken DEF TakesAll, Goes
    <2> HIDE DEF to
    <2> QED  BY <1>1, <2>1, <2>2, ConsumerReplaced
  <1>8. CASE Pushes(t) /\ p.target > p.consumed
    <2> DEFINE to == [p EXCEPT !.consumed = p.target, !.at = "publish"]
    <2>1. pub' = [pub EXCEPT ![t] = to] /\ Others
        BY <1>8 DEF Pushes, Goes
    <2>2. Follows(p, to)
        BY <1>1, <1>8, Pushed DEF Pushes, Goes
    <2> HIDE DEF to
    <2> QED  BY <1>1, <2>1, <2>2, ConsumerReplaced
  <1>9. CASE Pushes(t) /\ ~(p.target > p.consumed)
    <2> DEFINE to == [p EXCEPT !.at = "check"]
    <2>1. pub' = [pub EXCEPT ![t] = to] /\ Others
        BY <1>9 DEF Pushes, Goes
    <2>2. Follows(p, to)
        BY <1>1, <1>9, Nothing DEF Pushes, Goes
    <2> HIDE DEF to
    <2> QED  BY <1>1, <2>1, <2>2, ConsumerReplaced
  <1>10. CASE Publishes(t)
    <2> DEFINE to == [p EXCEPT !.published = p.consumed, !.at = "check",
                               !.callbackStop = p.callbackStop \/ stop \/ ~running]
    <2>1. pub' = [pub EXCEPT ![t] = to] /\ Others
        BY <1>10 DEF Publishes, Goes
    <2>2. Follows(p, to)
        BY <1>1, <1>10, Shown DEF Publishes, Goes
    <2> HIDE DEF to
    <2> QED  BY <1>1, <2>1, <2>2, ConsumerReplaced
  <1>11. CASE Checks(t)
    <2> DEFINE to == [p EXCEPT !.at = IF Finished(p) THEN "exit" ELSE "wait"]
    <2>1. pub' = [pub EXCEPT ![t] = to] /\ Others
        BY <1>11 DEF Checks, Goes
    <2>2. Follows(p, to)
        BY <1>1, <1>11, Checked DEF Checks, Goes
    <2> HIDE DEF to
    <2> QED  BY <1>1, <2>1, <2>2, ConsumerReplaced
  <1> QED  BY <1>2, <1>3, <1>4, <1>5, <1>6, <1>7, <1>8, <1>9, <1>10, <1>11 DEF Consumer

-----------------------------------------------------------------------------
(* The worker and the UI.                                                  *)

\* The worker replaces its publisher p by to; the consumer has not left, or
\* sees no new ids.
Alters(p, to) ==
    /\ to \in Publishers /\ PublisherOK(to)
    /\ to.at = p.at
    /\ p.closing => to.closing

\* step_tokens saw an end of sequence, or none.
LEMMA EosSet ==
    ASSUME NEW p \in Publishers, PublisherOK(p), NEW b \in BOOLEAN
    PROVE  Alters(p, [p EXCEPT !.hitEos = b])
  <1> DEFINE to == [p EXCEPT !.hitEos = b]
  <1>1. /\ p.ids \in Nat /\ p.target \in Nat /\ p.consumed \in Nat /\ p.published \in Nat
        /\ p.signals \in Nat \cup {None}
      BY DEF Publishers
  <1>2. to \in Publishers
      BY <1>1, Setters
  <1>3. /\ to.ids = p.ids /\ to.signals = p.signals /\ to.target = p.target
        /\ to.consumed = p.consumed /\ to.published = p.published /\ to.at = p.at
        /\ p.closing => to.closing
      BY DEF Publishers
  <1> HIDE DEF to
  <1>4. PublisherOK(to)
      BY <1>1, <1>3 DEF PublisherOK
  <1>5. Alters(p, to)
      BY <1>2, <1>3, <1>4 DEF Alters
  <1> QED  BY <1>5 DEF to

\* submit extends the ids before the consumer can have left.
LEMMA IdsAdded ==
    ASSUME NEW p \in Publishers, PublisherOK(p), p.at # "exit", NEW n \in Nat
    PROVE  Alters(p, [p EXCEPT !.ids = p.ids + n])
  <1> DEFINE to == [p EXCEPT !.ids = p.ids + n]
  <1>1. /\ p.ids \in Nat /\ p.target \in Nat /\ p.consumed \in Nat /\ p.published \in Nat
        /\ p.signals \in Nat \cup {None}
      BY DEF Publishers
  <1>2. to \in Publishers
      BY <1>1, Setters
  <1>3. /\ to.ids = p.ids + n /\ to.signals = p.signals /\ to.target = p.target
        /\ to.consumed = p.consumed /\ to.published = p.published /\ to.at = p.at
        /\ p.closing => to.closing
      BY DEF Publishers
  <1> HIDE DEF to
  <1>4. PublisherOK(to)
      BY <1>1, <1>3 DEF PublisherOK
  <1>5. Alters(p, to)
      BY <1>2, <1>3, <1>4 DEF Alters
  <1> QED  BY <1>5 DEF to

\* submit and close signal the ids of now.
LEMMA Signalled ==
    ASSUME NEW p \in Publishers, PublisherOK(p)
    PROVE  Alters(p, [p EXCEPT !.signals = p.ids])
  <1> DEFINE to == [p EXCEPT !.signals = p.ids]
  <1>1. /\ p.ids \in Nat /\ p.target \in Nat /\ p.consumed \in Nat /\ p.published \in Nat
        /\ p.signals \in Nat \cup {None}
      BY DEF Publishers
  <1>2. to \in Publishers
      BY <1>1, Setters
  <1>3. /\ to.ids = p.ids /\ to.signals = p.ids /\ to.target = p.target
        /\ to.consumed = p.consumed /\ to.published = p.published /\ to.at = p.at
        /\ p.closing => to.closing
      BY DEF Publishers
  <1> HIDE DEF to
  <1>4. PublisherOK(to)
      BY <1>1, <1>3 DEF PublisherOK
  <1>5. Alters(p, to)
      BY <1>2, <1>3, <1>4 DEF Alters
  <1> QED  BY <1>5 DEF to

\* submit and close set the event.
LEMMA WakeSet ==
    ASSUME NEW p \in Publishers, PublisherOK(p), NEW b \in BOOLEAN
    PROVE  Alters(p, [p EXCEPT !.wake = b])
  <1> DEFINE to == [p EXCEPT !.wake = b]
  <1>1. /\ p.ids \in Nat /\ p.target \in Nat /\ p.consumed \in Nat /\ p.published \in Nat
        /\ p.signals \in Nat \cup {None}
      BY DEF Publishers
  <1>2. to \in Publishers
      BY <1>1, Setters
  <1>3. /\ to.ids = p.ids /\ to.signals = p.signals /\ to.target = p.target
        /\ to.consumed = p.consumed /\ to.published = p.published /\ to.at = p.at
        /\ p.closing => to.closing
      BY DEF Publishers
  <1> HIDE DEF to
  <1>4. PublisherOK(to)
      BY <1>1, <1>3 DEF PublisherOK
  <1>5. Alters(p, to)
      BY <1>2, <1>3, <1>4 DEF Alters
  <1> QED  BY <1>5 DEF to

\* close sets its flag.
LEMMA ClosingSet ==
    ASSUME NEW p \in Publishers, PublisherOK(p)
    PROVE  Alters(p, [p EXCEPT !.closing = TRUE])
  <1> DEFINE to == [p EXCEPT !.closing = TRUE]
  <1>1. /\ p.ids \in Nat /\ p.target \in Nat /\ p.consumed \in Nat /\ p.published \in Nat
        /\ p.signals \in Nat \cup {None}
      BY DEF Publishers
  <1>2. to \in Publishers
      BY <1>1, Setters
  <1>3. /\ to.ids = p.ids /\ to.signals = p.signals /\ to.target = p.target
        /\ to.consumed = p.consumed /\ to.published = p.published /\ to.at = p.at
        /\ p.closing => to.closing
      BY DEF Publishers
  <1> HIDE DEF to
  <1>4. PublisherOK(to)
      BY <1>1, <1>3 DEF PublisherOK
  <1>5. Alters(p, to)
      BY <1>2, <1>3, <1>4 DEF Alters
  <1> QED  BY <1>5 DEF to

\* A step that leaves the publishers and the turn alone.
LEMMA Kept ==
    ASSUME PubInv, pub' = pub, turn' = turn, new' \in Nat,
           worker' # "idle" => turn \in Turns,
           turn \in Turns /\ pub[turn].closing => worker' \in Closing /\ call' # "prefill",
           worker' = "called" => call' \in {"prefill", "done", "error"},
           call' # None => worker' = "called",
           turn \in Turns /\ (worker' \in {"report", "idle"} \/ call' \in {"done", "error"}) =>
               pub[turn].at = "exit"
    PROVE  PubInv'
  BY DEF PubInv

\* Every step of generate preserves the invariant.
LEMMA WorkerStep ==
    ASSUME PubInv, Worker
    PROVE  PubInv'
  <1> DEFINE p == pub[turn]
  <1>1. /\ turn \in Turns /\ p \in Publishers /\ PublisherOK(p) /\ new \in Nat
        /\ p.closing => worker \in Closing
        /\ p.at = "exit" => p.closing
        /\ worker \in {"report", "idle"} => p.at = "exit"
        /\ worker # "called" /\ worker # "idle" /\ call = None
    <2>1. worker # "called" /\ worker # "idle"
        BY DEF Worker, Tokens, Raises, SubmitAppend, SubmitTest, SubmitSignal, SubmitWake, Answer,
               Prefilled, Returns, CloseFlag, CloseSignal, CloseWake, Join, Report
    <2> QED  BY <2>1 DEF PubInv
  <1>2. CASE Tokens
    <2>1. PICK eos \in BOOLEAN : pub' = [pub EXCEPT ![turn].hitEos = eos]
        BY <1>2 DEF Tokens
    <2>2. new' \in Nat /\ worker' \in {"answer", "append"}
        BY <1>2, ChatThreadsAssumption DEF Tokens, ChatThreadsAssumption
    <2>3. turn' = turn /\ call' = call /\ worker \notin Closing
        BY <1>2 DEF Tokens, ui, Closing
    <2> DEFINE to == [p EXCEPT !.hitEos = eos]
    <2>4. Alters(p, to) /\ pub' = [pub EXCEPT ![turn] = to]
        BY <1>1, <2>1, EosSet
    <2>5. to.closing = p.closing
        BY <1>1 DEF Publishers
    <2> HIDE DEF to
    <2> QED  BY <1>1, <2>2, <2>3, <2>4, <2>5, Replaced DEF Alters
  <1>3. CASE SubmitAppend
    <2> DEFINE to == [p EXCEPT !.ids = p.ids + new]
    <2>1. worker \notin Closing /\ turn' = turn /\ call' = call /\ worker' = "test" /\ new' = 0
        BY <1>3 DEF SubmitAppend, ui, Closing
    <2>2. Alters(p, to) /\ pub' = [pub EXCEPT ![turn] = to]
        BY <1>1, <1>3, <2>1, IdsAdded DEF SubmitAppend
    <2>3. to.closing = p.closing
        BY <1>1 DEF Publishers
    <2> HIDE DEF to
    <2> QED  BY <1>1, <2>1, <2>2, <2>3, Replaced DEF Alters
  <1>4. CASE SubmitSignal
    <2> DEFINE to == [p EXCEPT !.signals = p.ids]
    <2>1. worker \notin Closing /\ turn' = turn /\ call' = call /\ worker' = "wake" /\ new' = new
        BY <1>4 DEF SubmitSignal, ui, decode, Closing
    <2>2. Alters(p, to) /\ pub' = [pub EXCEPT ![turn] = to]
        BY <1>1, <1>4, Signalled DEF SubmitSignal, P
    <2>3. to.closing = p.closing
        BY <1>1 DEF Publishers
    <2> HIDE DEF to
    <2> QED  BY <1>1, <2>1, <2>2, <2>3, Replaced DEF Alters
  <1>5. CASE SubmitWake
    <2> DEFINE to == [p EXCEPT !.wake = p.wake \/ shouldWake]
    <2>1. worker \notin Closing /\ turn' = turn /\ call' = call /\ worker' = "answer" /\ new' = new
        BY <1>5 DEF SubmitWake, ui, Closing
    <2>2. Alters(p, to) /\ pub' = [pub EXCEPT ![turn] = to]
        BY <1>1, <1>5, WakeSet DEF SubmitWake
    <2>3. to.closing = p.closing
        BY <1>1 DEF Publishers
    <2> HIDE DEF to
    <2> QED  BY <1>1, <2>1, <2>2, <2>3, Replaced DEF Alters
  <1>6. CASE CloseFlag
    <2> DEFINE to == [p EXCEPT !.closing = TRUE]
    <2>1. worker \notin Closing /\ turn' = turn /\ call' = call /\ worker' = "closeSignal" /\ new' = new
        BY <1>6 DEF CloseFlag, ui, decode, Closing
    <2>2. Alters(p, to) /\ pub' = [pub EXCEPT ![turn] = to]
        BY <1>1, <1>6, ClosingSet DEF CloseFlag
    <2> HIDE DEF to
    <2> QED  BY <1>1, <2>1, <2>2, Replaced DEF Alters, Closing
  <1>7. CASE CloseSignal
    <2> DEFINE to == [p EXCEPT !.signals = p.ids]
    <2>1. turn' = turn /\ call' = call /\ worker' = "closeWake" /\ new' = new
        BY <1>7 DEF CloseSignal, ui, decode
    <2>2. Alters(p, to) /\ pub' = [pub EXCEPT ![turn] = to]
        BY <1>1, <1>7, Signalled DEF CloseSignal, P
    <2>3. to.closing = p.closing
        BY <1>1 DEF Publishers
    <2> HIDE DEF to
    <2> QED  BY <1>1, <2>1, <2>2, <2>3, Replaced DEF Alters, Closing
  <1>8. CASE CloseWake
    <2> DEFINE to == [p EXCEPT !.wake = TRUE]
    <2>1. turn' = turn /\ call' = call /\ worker' = "join" /\ new' = new
        BY <1>8 DEF CloseWake, ui, decode
    <2>2. Alters(p, to) /\ pub' = [pub EXCEPT ![turn] = to]
        BY <1>1, <1>8, WakeSet DEF CloseWake, LastWake
    <2>3. to.closing = p.closing
        BY <1>1 DEF Publishers
    <2> HIDE DEF to
    <2> QED  BY <1>1, <2>1, <2>2, <2>3, Replaced DEF Alters, Closing
  <1>9. CASE Raises \/ SubmitTest \/ Answer \/ Returns
    <2>1. worker \notin Closing /\ worker' \notin {"idle", "report", "called"}
        BY <1>9 DEF Raises, SubmitTest, Answer, Returns, Closing
    <2>2. pub' = pub /\ turn' = turn /\ call' = call /\ new' = new
        BY <1>9 DEF Raises, SubmitTest, Answer, Returns, ui, decode
    <2> QED  BY <1>1, <2>1, <2>2, Kept, ChatThreadsAssumption DEF ChatThreadsAssumption
  <1>10. CASE Prefilled
    <2>1. worker \notin Closing /\ pub' = pub /\ turn' = turn /\ new' = new
        BY <1>10 DEF Prefilled, ui, decode, Closing
    <2>2. \/ call' = "prefill" /\ worker' = "called"
          \/ call' = None /\ worker' = "decode"
        BY <1>1, <1>10 DEF Prefilled
    <2> QED  BY <1>1, <2>1, <2>2, Kept, ChatThreadsAssumption DEF ChatThreadsAssumption
  <1>11. CASE Join
    <2>1. p.at = "exit" /\ worker' = "report" /\ pub' = pub /\ turn' = turn /\ new' = new /\ call' = call
        BY <1>11 DEF Join, Joined, P, ui
    <2> QED  BY <1>1, <2>1, Kept, ChatThreadsAssumption DEF Closing, ChatThreadsAssumption
  <1>12. CASE Report
    <2>1. worker = "report" /\ pub' = pub /\ turn' = turn /\ new' = new
        BY <1>12 DEF Report, ui, decode
    <2>2. \/ call' \in {"done", "error"} /\ worker' = "called"
          \/ call' = None /\ worker' = "idle"
        BY <1>1, <1>12 DEF Report
    <2> QED  BY <1>1, <2>1, <2>2, Kept, ChatThreadsAssumption DEF Closing, ChatThreadsAssumption
  <1> QED  BY <1>2, <1>3, <1>4, <1>5, <1>6, <1>7, <1>8, <1>9, <1>10, <1>11, <1>12 DEF Worker

\* So does every step of the UI thread.
LEMMA UiStep ==
    ASSUME PubInv, User \/ TimerRead \/ TimerShow \/ Callback
    PROVE  PubInv'
  <1>1. CASE Start
    <2>1. /\ worker = "idle" /\ call' = None /\ worker' = "prefill" /\ new' = new
          /\ turn < MaxTurns /\ turn' = turn + 1
        BY <1>1 DEF Start
    <2>2. turn \in Nat /\ MaxTurns \in Nat /\ turn' \in Turns /\ \A t \in Turns : t \in Nat
        BY <2>1, ChatThreadsAssumption DEF ChatThreadsAssumption, PubInv, Turns
    <2>3. \A t \in Turns : pub'[t] = IF pub[t].at = "exit" THEN [NewPublisher EXCEPT !.at = "exit"] ELSE pub[t]
        BY <1>1 DEF Start
    <2>4. pub' \in [Turns -> Publishers] /\ \A t \in Turns : PublisherOK(pub'[t])
        BY <1>1, <2>3, LeftOK DEF Start, PubInv
    <2>5. \A t \in Turns : t <= turn => pub[t].at = "exit"
        BY <2>1, <2>2 DEF PubInv
    <2>6. \A t \in Turns : t > turn => pub[t].at = "wait" /\ ~pub[t].closing /\ pub[t] = NewPublisher
        BY NewOK DEF PubInv
    <2>7. \A t \in Turns : t < turn' => pub'[t].at = "exit"
      <3>1. \A t \in Turns : t < turn' => t <= turn
          BY <2>1, <2>2
      <3>2. \A t \in Turns : t <= turn => pub'[t] = [NewPublisher EXCEPT !.at = "exit"]
          BY <2>3, <2>5
      <3> QED  BY <3>1, <3>2, LeftOK
    <2>8. \A t \in Turns : t >= turn' => pub'[t].at # "exit" /\ ~pub'[t].closing /\ pub'[t] = NewPublisher
      <3>1. \A t \in Turns : t >= turn' => t > turn
          BY <2>1, <2>2
      <3>2. \A t \in Turns : t > turn => pub'[t] = pub[t]
          BY <2>3, <2>6
      <3> QED  BY <2>6, <3>1, <3>2
    <2>9. turn' \in 0 .. MaxTurns /\ new' \in Nat
        BY <2>1, <2>2 DEF PubInv, Turns
    <2>10. call' \notin {"prefill", "done", "error"}
        BY <2>1, ChatThreadsAssumption DEF ChatThreadsAssumption
    <2> QED  BY <2>1, <2>2, <2>4, <2>7, <2>8, <2>9, <2>10 DEF PubInv
  <1>2. CASE Interrupt \/ TimerRead \/ TimerShow
    <2>1. pub' = pub /\ turn' = turn /\ new' = new /\ worker' = worker /\ call' = call
        BY <1>2 DEF Interrupt, TimerRead, TimerShow, decode
    <2> QED  BY <2>1, Kept DEF PubInv
  <1>3. CASE Callback \/ Exit
    <2>1. /\ pub' = pub /\ turn' = turn /\ new' = new /\ call' = None
          /\ worker' = IF call = "prefill" THEN "decode" ELSE IF call # None THEN "idle" ELSE worker
        BY <1>3, ChatThreadsAssumption DEF ChatThreadsAssumption, Callback, Exit, decode
    <2>2. CASE call = "prefill"
        BY <2>1, <2>2, Kept, ChatThreadsAssumption DEF PubInv, ChatThreadsAssumption
    <2>3. CASE call # "prefill" /\ call # None
      <3>1. call \in {"done", "error"} /\ worker = "called"
          BY <2>3 DEF PubInv
      <3> QED  BY <2>1, <2>3, <3>1, Kept, ChatThreadsAssumption DEF PubInv, Closing, ChatThreadsAssumption
    <2>4. CASE call = None
      <3>1. worker # "called"
          BY <2>4, ChatThreadsAssumption DEF PubInv, ChatThreadsAssumption
      <3> QED  BY <2>1, <2>4, <3>1, Kept, ChatThreadsAssumption DEF PubInv, ChatThreadsAssumption
    <2> QED  BY <2>2, <2>3, <2>4
  <1> QED  BY <1>1, <1>2, <1>3 DEF User

\* The invariant is inductive.
LEMMA PubInvStep == PubInv /\ [Next]_vars => PubInv'
  <1> SUFFICES ASSUME PubInv, [Next]_vars PROVE PubInv'
      OBVIOUS
  <1>1. CASE UNCHANGED vars
      BY <1>1 DEF PubInv, vars, ui, decode
  <1>2. CASE Next
      BY <1>2, UiStep, WorkerStep, ConsumerStep DEF Next
  <1> QED  BY <1>1, <1>2
-----------------------------------------------------------------------------
\* When generate goes on after close, every id of its turn was decoded and
\* given to on_text, for any number of turns and tokens: a skipped or missed
\* wakeup delays the consumer of _AsyncTextPublisher and loses nothing.
THEOREM TurnsArePublished == Spec => []AllPublished
  <1>1. PubInv => AllPublished
    <2> SUFFICES ASSUME PubInv, worker = "report" PROVE P.published = P.ids
        BY DEF AllPublished
    <2>1. turn \in Turns /\ PublisherOK(pub[turn]) /\ pub[turn].at = "exit"
        BY DEF PubInv
    <2> QED  BY <2>1 DEF PublisherOK, P
  <1> QED  BY <1>1, InitPubInv, PubInvStep, PTL DEF Spec

\* A frame that is waiting for the timer, or that it is rendering, is of the
\* turn on screen: a late consumer of an earlier turn, or a flush between two
\* turns, never writes into another message.
THEOREM FramesAreOwn == Spec => []OwnFrames
  <1>1. Init => OwnFrames
      BY DEF Init, OwnFrames
  <1>2. PubInv /\ OwnFrames /\ [Next]_vars => OwnFrames'
    <2> SUFFICES ASSUME PubInv, OwnFrames, [Next]_vars PROVE OwnFrames'
        OBVIOUS
    <2>1. CASE UNCHANGED vars
        BY <2>1 DEF OwnFrames, vars, ui
    <2>2. CASE Worker
      <3>1. pending' = pending /\ UNCHANGED ui
          BY <2>2 DEF Worker, Tokens, Raises, SubmitAppend, SubmitTest, SubmitSignal, SubmitWake, Answer,
                      Prefilled, Returns, CloseFlag, CloseSignal, CloseWake, Join, Report
      <3> QED  BY <3>1 DEF OwnFrames, ui
    <2>3. CASE Start
        BY <2>3 DEF Start, Idle, OwnFrames
    <2>4. CASE Interrupt \/ Exit \/ TimerRead \/ TimerShow
        BY <2>4 DEF Interrupt, Exit, TimerRead, TimerShow, Idle, OwnFrames
    <2>5. CASE Callback
        BY <2>5 DEF Callback, Idle, OwnFrames
    <2>6. ASSUME NEW t \in Turns, Consumer(t) PROVE OwnFrames'
      <3>1. t = turn /\ turn' = turn /\ frame' = frame /\ busy' = busy
          BY <2>6, ConsumerOfTurn DEF Consumer, Wakes, ClearsWake, Pops, Clears, TakesAll, Pushes, Publishes,
                                      Checks, Others, ui
      <3>2. pending' = pending \/ pending' = [turn |-> t, n |-> pub[t].consumed]
          BY <2>6 DEF Consumer, Wakes, ClearsWake, Pops, Clears, TakesAll, Pushes, Publishes, Checks
      <3> QED  BY <3>1, <3>2 DEF OwnFrames
    <2> QED  BY <2>1, <2>2, <2>3, <2>4, <2>5, <2>6 DEF Next, User
  <1> QED  BY <1>1, <1>2, InitPubInv, PubInvStep, PTL DEF Spec
-----------------------------------------------------------------------------
(* An interruption is reported as one.                                     *)

\* Only a stop of the user, or the end of the application, cuts a turn short
\* or is taken for an interruption; the worker ends a turn for a reason.
CutInv ==
    /\ worker = "prefill" => ~ended
    /\ turn \in Turns /\ ended => P.hitEos \/ stopped
    /\ worker \in {"close", "closeSignal", "closeWake", "join", "report"} \/ call = "done" =>
         raised \/ ended \/ produced = MaxTokens
    /\ call = "done" => ~raised
    /\ call # None => running
    /\ turn \in Turns /\ running => (stopped => stop) /\ (P.callbackStop => stop)

\* The consumer may record a stop; it never forgets an end of sequence.
LEMMA ConsumerVerdict ==
    ASSUME PubInv, NEW t \in Turns, Consumer(t)
    PROVE  /\ pub[t].hitEos => pub'[t].hitEos
           /\ pub'[t].callbackStop => pub[t].callbackStop \/ stop \/ ~running
  <1>1. pub[t] \in Publishers /\ pub \in [Turns -> Publishers]
    BY DEF PubInv
  <1>2. CASE Publishes(t)
    <2>. DEFINE to == [pub[t] EXCEPT !.published = pub[t].consumed, !.at = "check",
                                     !.callbackStop = pub[t].callbackStop \/ stop \/ ~running]
    <2>1. pub' = [pub EXCEPT ![t] = to]
      BY <1>2 DEF Publishes, Goes
    <2>2. pub'[t] = to
      BY <1>1, <2>1
    <2>3. to.hitEos = pub[t].hitEos
      BY <1>1, Zenon DEF Publishers
    <2>4. to.callbackStop = (pub[t].callbackStop \/ stop \/ ~running)
      BY <1>1, Zenon DEF Publishers
    <2>. HIDE DEF to
    <2>. QED  BY <2>2, <2>3, <2>4, Zenon
  <1>3. ASSUME NEW to, pub' = [pub EXCEPT ![t] = to],
               to.hitEos = pub[t].hitEos, to.callbackStop = pub[t].callbackStop
        PROVE  /\ pub[t].hitEos => pub'[t].hitEos
               /\ pub'[t].callbackStop => pub[t].callbackStop
    <2>1. pub'[t] = to
      BY <1>1, <1>3
    <2>. QED  BY <1>3, <2>1, Zenon
  <1>4. CASE Wakes(t)
    <2>. DEFINE to == [pub[t] EXCEPT !.at = "woken"]
    <2>1. pub' = [pub EXCEPT ![t] = to]
      BY <1>4 DEF Wakes, Goes
    <2>2. to.hitEos = pub[t].hitEos /\ to.callbackStop = pub[t].callbackStop
      BY <1>1 DEF Publishers
    <2>. HIDE DEF to
    <2>. QED  BY <1>3, <2>1, <2>2
  <1>5. CASE ClearsWake(t)
    <2>. DEFINE to == [pub[t] EXCEPT !.wake = FALSE, !.at = "look"]
    <2>1. pub' = [pub EXCEPT ![t] = to]
      BY <1>5 DEF ClearsWake, Goes
    <2>2. to.hitEos = pub[t].hitEos /\ to.callbackStop = pub[t].callbackStop
      BY <1>1 DEF Publishers
    <2>. HIDE DEF to
    <2>. QED  BY <1>3, <2>1, <2>2
  <1>6. CASE Pops(t) /\ pub[t].signals # None
    <2>. DEFINE to == [pub[t] EXCEPT !.target = pub[t].signals, !.signals = None, !.at = "clear"]
    <2>1. pub' = [pub EXCEPT ![t] = to]
      BY <1>6 DEF Pops, Goes
    <2>2. to.hitEos = pub[t].hitEos /\ to.callbackStop = pub[t].callbackStop
      BY <1>1 DEF Publishers
    <2>. HIDE DEF to
    <2>. QED  BY <1>3, <2>1, <2>2
  <1>7. CASE Pops(t) /\ pub[t].signals = None
    <2>. DEFINE to == [pub[t] EXCEPT !.at = "all"]
    <2>1. pub' = [pub EXCEPT ![t] = to]
      BY <1>7 DEF Pops, Goes
    <2>2. to.hitEos = pub[t].hitEos /\ to.callbackStop = pub[t].callbackStop
      BY <1>1 DEF Publishers
    <2>. HIDE DEF to
    <2>. QED  BY <1>3, <2>1, <2>2
  <1>8. CASE Clears(t)
    <2>. DEFINE to == [pub[t] EXCEPT !.signals = None, !.at = "push"]
    <2>1. pub' = [pub EXCEPT ![t] = to]
      BY <1>8 DEF Clears, Goes
    <2>2. to.hitEos = pub[t].hitEos /\ to.callbackStop = pub[t].callbackStop
      BY <1>1 DEF Publishers
    <2>. HIDE DEF to
    <2>. QED  BY <1>3, <2>1, <2>2
  <1>9. CASE TakesAll(t)
    <2>. DEFINE to == [pub[t] EXCEPT !.target = pub[t].ids, !.at = "push"]
    <2>1. pub' = [pub EXCEPT ![t] = to]
      BY <1>9 DEF TakesAll, Goes
    <2>2. to.hitEos = pub[t].hitEos /\ to.callbackStop = pub[t].callbackStop
      BY <1>1 DEF Publishers
    <2>. HIDE DEF to
    <2>. QED  BY <1>3, <2>1, <2>2
  <1>10. CASE Pushes(t) /\ pub[t].target > pub[t].consumed
    <2>. DEFINE to == [pub[t] EXCEPT !.consumed = pub[t].target, !.at = "publish"]
    <2>1. pub' = [pub EXCEPT ![t] = to]
      BY <1>10 DEF Pushes, Goes
    <2>2. to.hitEos = pub[t].hitEos /\ to.callbackStop = pub[t].callbackStop
      BY <1>1 DEF Publishers
    <2>. HIDE DEF to
    <2>. QED  BY <1>3, <2>1, <2>2
  <1>11. CASE Pushes(t) /\ ~(pub[t].target > pub[t].consumed)
    <2>. DEFINE to == [pub[t] EXCEPT !.at = "check"]
    <2>1. pub' = [pub EXCEPT ![t] = to]
      BY <1>11 DEF Pushes, Goes
    <2>2. to.hitEos = pub[t].hitEos /\ to.callbackStop = pub[t].callbackStop
      BY <1>1 DEF Publishers
    <2>. HIDE DEF to
    <2>. QED  BY <1>3, <2>1, <2>2
  <1>12. CASE Checks(t)
    <2>. DEFINE to == [pub[t] EXCEPT !.at = IF Finished(pub[t]) THEN "exit" ELSE "wait"]
    <2>1. pub' = [pub EXCEPT ![t] = to]
      BY <1>12 DEF Checks, Goes
    <2>2. to.hitEos = pub[t].hitEos /\ to.callbackStop = pub[t].callbackStop
      BY <1>1 DEF Publishers
    <2>. HIDE DEF to
    <2>. QED  BY <1>3, <2>1, <2>2
  <1>. QED  BY <1>2, <1>4, <1>5, <1>6, <1>7, <1>8, <1>9, <1>10, <1>11, <1>12 DEF Consumer

LEMMA ConsumerCut ==
    ASSUME PubInv, CutInv, NEW t \in Turns, Consumer(t)
    PROVE  CutInv'
  <1>1. t = turn /\ turn' = turn
    BY ConsumerOfTurn DEF Consumer, Wakes, ClearsWake, Pops, Clears, TakesAll, Pushes, Publishes, Checks, Others, ui
  <1>2. UNCHANGED <<running, stop, call, worker, produced, ended, raised, stopped>>
    BY DEF Consumer, Wakes, ClearsWake, Pops, Clears, TakesAll, Pushes, Publishes, Checks, Others, ui, decode
  <1>3. /\ P.hitEos => P'.hitEos
        /\ P'.callbackStop => P.callbackStop \/ stop \/ ~running
    BY <1>1, ConsumerVerdict DEF P
  <1>. QED  BY <1>1, <1>2, <1>3, Zenon DEF CutInv

\* A step that leaves the publisher of the turn alone.
LEMMA CutKept ==
    ASSUME CutInv, turn' = turn, (turn \in Turns => P'.hitEos = P.hitEos /\ P'.callbackStop = P.callbackStop),
           UNCHANGED <<ended, raised, produced, stopped>>, stop => stop', running' => running,
           worker' # "prefill",
           worker' \in {"close", "closeSignal", "closeWake", "join", "report"} \/ call' = "done" =>
               raised \/ ended \/ produced = MaxTokens,
           call' = "done" => ~raised, call' # None => running'
    PROVE  CutInv'
  BY Zenon DEF CutInv

LEMMA WorkerCut ==
    ASSUME PubInv, CutInv, Worker
    PROVE  CutInv'
  <1>1. turn \in Turns /\ call = None /\ turn' = turn /\ stop' = stop /\ running' = running
        /\ pub \in [Turns -> Publishers] /\ pub[turn] \in Publishers
    <2>1. worker # "called" /\ worker # "idle" /\ UNCHANGED ui
      BY DEF Worker, Tokens, Raises, SubmitAppend, SubmitTest, SubmitSignal, SubmitWake, Answer,
             Prefilled, Returns, CloseFlag, CloseSignal, CloseWake, Join, Report
    <2>. QED  BY <2>1 DEF PubInv, ui
  <1>2. None # "done"
    BY ChatThreadsAssumption DEF ChatThreadsAssumption
  <1>3. CASE Tokens
    <2>1. ~ended /\ ended' = ended /\ worker' \in {"answer", "append"} /\ UNCHANGED <<call, raised, stopped>>
      BY <1>3 DEF Tokens, CutInv
    <2>2. PICK eos \in BOOLEAN : pub' = [pub EXCEPT ![turn].hitEos = eos]
      BY <1>3 DEF Tokens
    <2>3. P'.callbackStop = P.callbackStop
      BY <1>1, <2>2 DEF Publishers, P
    <2>. QED  BY <1>1, <1>2, <2>1, <2>3 DEF CutInv
  <1>4. CASE Raises
    <2>1. worker' = "close" /\ raised' /\ UNCHANGED <<pub, call, ended, stopped>>
      BY <1>4 DEF Raises
    <2>. QED  BY <1>1, <1>2, <2>1 DEF CutInv, P
  <1>5. CASE SubmitAppend
    <2>1. worker' = "test" /\ UNCHANGED <<call, ended, raised, produced, stopped>>
      BY <1>5 DEF SubmitAppend
    <2>2. P'.hitEos = P.hitEos /\ P'.callbackStop = P.callbackStop
      BY <1>1, <1>5 DEF SubmitAppend, Publishers, P
    <2>. QED  BY <1>1, <1>2, <2>1, <2>2, CutKept
  <1>6. CASE SubmitTest
    <2>1. worker' = "signal" /\ UNCHANGED <<pub, call, ended, raised, produced, stopped>>
      BY <1>6 DEF SubmitTest
    <2>. QED  BY <1>1, <1>2, <2>1, CutKept DEF P
  <1>7. CASE SubmitSignal
    <2>1. worker' = "wake" /\ UNCHANGED <<call, ended, raised, produced, stopped>>
      BY <1>7 DEF SubmitSignal, decode
    <2>2. P'.hitEos = P.hitEos /\ P'.callbackStop = P.callbackStop
      BY <1>1, <1>7 DEF SubmitSignal, Publishers, P
    <2>. QED  BY <1>1, <1>2, <2>1, <2>2, CutKept
  <1>8. CASE SubmitWake
    <2>1. worker' = "answer" /\ UNCHANGED <<call, ended, raised, produced, stopped>>
      BY <1>8 DEF SubmitWake
    <2>2. P'.hitEos = P.hitEos /\ P'.callbackStop = P.callbackStop
      BY <1>1, <1>8 DEF SubmitWake, Publishers, P
    <2>. QED  BY <1>1, <1>2, <2>1, <2>2, CutKept
  <1>9. CASE Answer
    <2>1. /\ ended' = (P.hitEos \/ P.callbackStop \/ stop \/ ~running)
          /\ stopped' = (stopped \/ stop \/ ~running \/ ((P.hitEos \/ P.callbackStop) /\ ~P.hitEos))
      BY <1>9, Zenon DEF Answer, Interrupted
    <2>2. worker' \in {"prefilled", "decode"} /\ UNCHANGED <<call, pub, produced, raised>>
      BY <1>9 DEF Answer
    <2>3. P' = P
      BY <1>1, <2>2 DEF P
    <2>4. running => (stopped => stop) /\ (P.callbackStop => stop)
      BY <1>1 DEF CutInv
    <2>5. ended' => P.hitEos \/ stopped'
      BY <2>1, Zenon
    <2>6. running => (stopped' => stop)
      BY <2>1, <2>4, Zenon
    <2>. QED  BY <1>1, <1>2, <2>2, <2>3, <2>4, <2>5, <2>6 DEF CutInv
  <1>10. CASE Prefilled
    <2>1. worker' \in {"called", "decode"} /\ call' \in {"prefill", None} /\ (call' # None => running)
      BY <1>1, <1>10 DEF Prefilled
    <2>2. UNCHANGED <<pub, ended, raised, produced, stopped>>
      BY <1>10 DEF Prefilled, decode
    <2>. QED  BY <1>1, <1>2, <2>1, <2>2, CutKept DEF P
  <1>11. CASE Returns
    <2>1. worker' = "close" /\ (ended \/ produced = MaxTokens) /\ UNCHANGED <<pub, call, ended, raised, produced, stopped>>
      BY <1>11 DEF Returns, decode
    <2>. QED  BY <1>1, <1>2, <2>1, CutKept DEF P
  <1>12. CASE CloseFlag \/ CloseSignal \/ CloseWake
    <2>1. /\ worker \in {"close", "closeSignal", "closeWake"} /\ worker' \in {"closeSignal", "closeWake", "join"}
          /\ UNCHANGED <<call, ended, raised, produced, stopped>>
      BY <1>12 DEF CloseFlag, CloseSignal, CloseWake, decode
    <2>2. P'.hitEos = P.hitEos /\ P'.callbackStop = P.callbackStop
      BY <1>1, <1>12 DEF CloseFlag, CloseSignal, CloseWake, Publishers, P
    <2>3. raised \/ ended \/ produced = MaxTokens
      BY <2>1 DEF CutInv
    <2>. QED  BY <1>1, <1>2, <2>1, <2>2, <2>3, CutKept
  <1>13. CASE Join
    <2>1. worker = "join" /\ worker' = "report" /\ UNCHANGED <<pub, call, ended, raised, produced>>
      BY <1>13 DEF Join
    <2>2. stopped' = (stopped \/ (P.callbackStop /\ ~P.hitEos))
      BY <1>13, Zenon DEF Join
    <2>3. P' = P
      BY <1>1, <2>1 DEF P
    <2>4. running => (stopped => stop) /\ (P.callbackStop => stop)
      BY <1>1 DEF CutInv
    <2>5. (running => (stopped' => stop)) /\ (stopped => stopped')
      BY <2>2, <2>4, Zenon
    <2>. QED  BY <1>1, <1>2, <2>1, <2>3, <2>4, <2>5 DEF CutInv
  <1>14. CASE Report
    <2>1. worker = "report" /\ worker' \in {"called", "idle"} /\ (call' = "done" => ~raised) /\ (call' # None => running)
      BY <1>1, <1>2, <1>14 DEF Report
    <2>2. UNCHANGED <<pub, ended, raised, produced, stopped>>
      BY <1>14 DEF Report, decode
    <2>3. raised \/ ended \/ produced = MaxTokens
      BY <2>1 DEF CutInv
    <2>. QED  BY <1>1, <1>2, <2>1, <2>2, <2>3, CutKept DEF P
  <1>. QED  BY <1>3, <1>4, <1>5, <1>6, <1>7, <1>8, <1>9, <1>10, <1>11, <1>12, <1>13, <1>14 DEF Worker

LEMMA UiCut ==
    ASSUME PubInv, CutInv, User \/ TimerRead \/ TimerShow \/ Callback
    PROVE  CutInv'
  <1>1. CASE Start
    <2>1. /\ worker' = "prefill" /\ call' = None /\ ~ended' /\ ~stopped' /\ turn' = turn + 1 /\ turn < MaxTurns
          /\ turn' \in Turns => pub'[turn'] = IF pub[turn'].at = "exit" THEN [NewPublisher EXCEPT !.at = "exit"] ELSE pub[turn']
      BY <1>1 DEF Start
    <2>2. turn' \in Turns /\ turn' > turn
      BY <2>1, ChatThreadsAssumption DEF ChatThreadsAssumption, PubInv, Turns
    <2>3. pub[turn'] = NewPublisher
      BY <2>2 DEF PubInv
    <2>4. ~pub'[turn'].callbackStop
      BY <2>1, <2>2, <2>3 DEF NewPublisher
    <2>5. None # "done"
      BY ChatThreadsAssumption DEF ChatThreadsAssumption
    <2>. QED  BY <2>1, <2>4, <2>5 DEF CutInv, P
  <1>2. CASE Interrupt \/ TimerRead \/ TimerShow
    <2>1. UNCHANGED <<pub, turn, worker, call, ended, raised, produced, stopped, running>> /\ (stop => stop')
      BY <1>2 DEF Interrupt, TimerRead, TimerShow, decode
    <2>. QED  BY <2>1 DEF CutInv, P
  <1>3. CASE Callback \/ Exit
    <2>1. UNCHANGED <<pub, turn, ended, raised, produced, stopped, stop>> /\ (running' => running) /\ call' = None
      BY <1>3 DEF Callback, Exit, decode
    <2>2. worker' = IF call = "prefill" THEN "decode" ELSE IF call # None THEN "idle" ELSE worker
      BY <1>3, ChatThreadsAssumption DEF ChatThreadsAssumption, Callback, Exit
    <2>3. None # "done"
      BY ChatThreadsAssumption DEF ChatThreadsAssumption
    <2>. QED  BY <2>1, <2>2, <2>3 DEF CutInv, P
  <1>. QED  BY <1>1, <1>2, <1>3 DEF User

LEMMA CutInvStep == PubInv /\ CutInv /\ [Next]_vars => CutInv'
  <1>. SUFFICES ASSUME PubInv, CutInv, [Next]_vars PROVE CutInv'
    OBVIOUS
  <1>1. CASE UNCHANGED vars
    BY <1>1 DEF CutInv, vars, ui, decode, P
  <1>2. CASE Next
    BY <1>2, UiCut, WorkerCut, ConsumerCut DEF Next
  <1>. QED  BY <1>1, <1>2

\* A turn that was cut short before its end of sequence and its last token is
\* reported as interrupted, and only if the user interrupted it: whichever of
\* the decode loop and the consumer sees the stop first.
THEOREM CutsAreReported == Spec => []CutReported
  <1>1. Init => CutInv
    BY ChatThreadsAssumption DEF ChatThreadsAssumption, Init, CutInv, Turns
  <1>2. PubInv /\ CutInv => CutReported
    <2>. SUFFICES ASSUME PubInv, CutInv, call = "done" PROVE CutReported
      BY DEF CutReported
    <2>1. turn \in Turns
      BY ChatThreadsAssumption DEF ChatThreadsAssumption, PubInv
    <2>2. running /\ ~raised /\ (raised \/ ended \/ produced = MaxTokens)
      BY ChatThreadsAssumption DEF ChatThreadsAssumption, CutInv
    <2>3. produced < MaxTokens => produced # MaxTokens
      BY ChatThreadsAssumption DEF ChatThreadsAssumption
    <2>4. (stopped => stop) /\ (ended => P.hitEos \/ stopped)
      BY <2>1, <2>2 DEF CutInv
    <2>. QED  BY <2>2, <2>3, <2>4, Zenon DEF CutReported
  <1>. QED  BY <1>1, <1>2, InitPubInv, PubInvStep, CutInvStep, PTL DEF Spec
=============================================================================
