---------------------------- MODULE ChatThreads ----------------------------
(***************************************************************************)
(* One chat turn of the full-screen TUI (tui/app.py, tui/backend.py) and   *)
(* its three threads: the UI thread with its input, interrupt, timer and   *)
(* the callbacks sent to it; the worker that runs MLXBackend.generate; and *)
(* the consumer thread of the turn's _AsyncTextPublisher, which turns ids  *)
(* into text beside the decode.                                            *)
(*                                                                         *)
(* A step is what the interpreter lock makes atomic.  A text is the number *)
(* of ids it was decoded from, a frame is that number and its turn.        *)
(***************************************************************************)
EXTENDS Integers

CONSTANTS
    MaxTurns,    \* bound on the turns of a session
    MaxTokens,   \* max_tokens of a turn
    Batch,       \* tokens of one on_tokens call at most
    None

ASSUME ChatThreadsAssumption ==
    /\ {MaxTurns, MaxTokens, Batch} \subseteq Nat \ {0}
    /\ None \notin Nat \cup {"prefill", "done", "error"}

Turns == 1 .. MaxTurns

VARIABLES
    running,     \* App.is_running
    turn, busy, stop,
    pending,     \* _pending_stream: [turn, n] or None
    frame,       \* what the timer's callback took from it
    call,        \* callback a worker sent and waits for
    worker,      \* where the worker is
    new,         \* the ids of this on_tokens call
    first,       \* it is the call for the prefill's own token
    produced, ended, raised, stopped,
    shouldWake,  \* local of submit
    pub          \* the publishers, one per turn

ui == <<running, turn, busy, stop, frame>>
decode == <<new, first, produced, ended, raised, stopped, shouldWake>>
vars == <<ui, pending, call, worker, decode, pub>>

NewPublisher == [ids |-> 0, signals |-> None, wake |-> FALSE, closing |-> FALSE, callbackStop |-> FALSE,
                 hitEos |-> FALSE, at |-> "wait", target |-> 0, consumed |-> 0, published |-> 0]

Init ==
    /\ running = TRUE /\ turn = 0 /\ busy = FALSE /\ stop = FALSE
    /\ pending = None /\ frame = None /\ call = None
    /\ worker = "idle" /\ new = 0 /\ first = FALSE
    /\ produced = 0 /\ ended = FALSE /\ raised = FALSE /\ stopped = FALSE /\ shouldWake = FALSE
    /\ pub = [t \in Turns |-> NewPublisher]

P == pub[turn]
Idle == running /\ frame = None
-----------------------------------------------------------------------------
(* The UI thread: one callback at a time.                                  *)

\* _start, which on_input_submitted calls unless a turn is under way.  A
\* publisher that is done is dropped with its turn.
Start ==
    /\ Idle /\ ~busy /\ call = None /\ worker = "idle" /\ turn < MaxTurns
    /\ turn' = turn + 1 /\ busy' = TRUE /\ stop' = FALSE /\ pending' = None
    /\ worker' = "prefill"
    /\ produced' = 0 /\ ended' = FALSE /\ raised' = FALSE /\ stopped' = FALSE
    /\ pub' = [t \in Turns |-> IF pub[t].at = "exit" THEN [NewPublisher EXCEPT !.at = "exit"] ELSE pub[t]]
    /\ UNCHANGED <<running, frame, call, new, first, shouldWake>>

\* action_interrupt
Interrupt ==
    /\ Idle /\ busy /\ ~stop
    /\ stop' = TRUE
    /\ UNCHANGED <<running, turn, busy, frame, pending, call, worker, decode, pub>>

\* _flush_pending_stream: the frame is read, the reference is cleared.
TimerRead ==
    /\ Idle /\ busy /\ pending # None
    /\ frame' = pending
    /\ UNCHANGED <<running, turn, busy, stop, pending, call, worker, decode, pub>>

TimerShow ==
    /\ running /\ frame # None
    /\ frame' = None /\ pending' = None
    /\ UNCHANGED <<running, turn, busy, stop, call, worker, decode, pub>>

\* _on_prefill, _on_done or _on_error; the worker that sent it goes on.
Callback ==
    /\ Idle /\ call # None
    /\ call' = None
    /\ worker' = IF call = "prefill" THEN "decode" ELSE "idle"
    /\ IF call = "prefill" THEN UNCHANGED <<busy, pending>> ELSE busy' = FALSE /\ pending' = None
    /\ UNCHANGED <<running, turn, stop, frame, decode, pub>>

\* action_quit.  A callback that is waiting fails in its worker.
Exit ==
    /\ Idle
    /\ running' = FALSE /\ call' = None
    /\ worker' = IF call = "prefill" THEN "decode" ELSE IF call # None THEN "idle" ELSE worker
    /\ UNCHANGED <<turn, busy, stop, frame, pending, decode, pub>>
-----------------------------------------------------------------------------
(* The worker.                                                             *)

\* The prefill, or a step of mtp_generate, produces tokens; an end of
\* sequence hides what follows it.
Tokens ==
    /\ worker \in {"prefill", "decode"}
    /\ worker = "decode" => ~ended /\ produced < MaxTokens
    /\ \E n \in 1 .. IF worker = "prefill" THEN 1 ELSE Batch : \E eos \in BOOLEAN :
         /\ produced + n <= MaxTokens
         /\ \E shown \in IF eos THEN 0 .. n - 1 ELSE {n} :
              /\ new' = shown
              /\ worker' = IF shown = 0 THEN "answer" ELSE "append"
         /\ produced' = produced + n
         /\ pub' = [pub EXCEPT ![turn].hitEos = eos]
    /\ first' = (worker = "prefill")
    /\ UNCHANGED <<ui, pending, call, ended, raised, stopped, shouldWake>>

Raises ==
    /\ worker \in {"prefill", "decode"}
    /\ raised' = TRUE /\ worker' = "close"
    /\ UNCHANGED <<ui, pending, call, new, first, produced, ended, stopped, shouldWake, pub>>

\* submit
SubmitAppend ==
    /\ worker = "append" /\ worker' = "test"
    /\ pub' = [pub EXCEPT ![turn].ids = @ + new]
    /\ new' = 0
    /\ UNCHANGED <<ui, pending, call, first, produced, ended, raised, stopped, shouldWake>>

SubmitTest ==
    /\ worker = "test" /\ worker' = "signal"
    /\ shouldWake' = (P.signals = None)
    /\ UNCHANGED <<ui, pending, call, new, first, produced, ended, raised, stopped, pub>>

SubmitSignal ==
    /\ worker = "signal" /\ worker' = "wake"
    /\ pub' = [pub EXCEPT ![turn].signals = P.ids]
    /\ UNCHANGED <<ui, pending, call, decode>>

SubmitWake ==
    /\ worker = "wake" /\ worker' = "answer"
    /\ pub' = [pub EXCEPT ![turn].wake = @ \/ shouldWake]
    /\ shouldWake' = FALSE
    /\ UNCHANGED <<ui, pending, call, new, first, produced, ended, raised, stopped>>

\* (mutant) Only a stop that came through the publisher is recorded.
InterruptedByText(callbackStop, external) == stopped \/ (callbackStop /\ ~P.hitEos)

\* on_tokens' own verdict
Interrupted(callbackStop, external) ==
    stopped \/ external \/ (callbackStop /\ ~P.hitEos)

Answer ==
    /\ worker = "answer"
    /\ LET callbackStop == P.hitEos \/ P.callbackStop
           external == stop \/ ~running
       IN  /\ stopped' = Interrupted(callbackStop, external)
           /\ ended' = (callbackStop \/ external)
    /\ worker' = IF first THEN "prefilled" ELSE "decode"
    /\ first' = FALSE
    /\ UNCHANGED <<ui, pending, call, new, produced, raised, shouldWake, pub>>

\* on_prefill_complete
Prefilled ==
    /\ worker = "prefilled"
    /\ IF running THEN call' = "prefill" /\ worker' = "called" ELSE worker' = "decode" /\ UNCHANGED call
    /\ UNCHANGED <<ui, pending, decode, pub>>

\* mtp_generate returns.
Returns ==
    /\ worker = "decode" /\ (ended \/ produced = MaxTokens)
    /\ worker' = "close"
    /\ UNCHANGED <<ui, pending, call, decode, pub>>

\* close
CloseFlag ==
    /\ worker = "close" /\ worker' = "closeSignal"
    /\ pub' = [pub EXCEPT ![turn].closing = TRUE]
    /\ UNCHANGED <<ui, pending, call, decode>>

CloseSignal ==
    /\ worker = "closeSignal" /\ worker' = "closeWake"
    /\ pub' = [pub EXCEPT ![turn].signals = P.ids]
    /\ UNCHANGED <<ui, pending, call, decode>>

\* (mutant) The last wakeup is skipped like one of submit.
LastWakeIfEmpty == P.wake \/ P.signals = None

LastWake == TRUE

CloseWake ==
    /\ worker = "closeWake" /\ worker' = "join"
    /\ pub' = [pub EXCEPT ![turn].wake = LastWake]
    /\ UNCHANGED <<ui, pending, call, decode>>

\* (mutant) The turn ends while its consumer still publishes.
JoinedAtOnce == TRUE

Joined == P.at = "exit"

Join ==
    /\ worker = "join" /\ Joined
    /\ stopped' = (stopped \/ (P.callbackStop /\ ~P.hitEos))
    /\ worker' = "report"
    /\ UNCHANGED <<ui, pending, call, new, first, produced, ended, raised, shouldWake, pub>>

Report ==
    /\ worker = "report"
    /\ IF running
       THEN call' = (IF raised THEN "error" ELSE "done") /\ worker' = "called"
       ELSE worker' = "idle" /\ UNCHANGED call
    /\ UNCHANGED <<ui, pending, decode, pub>>
-----------------------------------------------------------------------------
(* The consumer thread of turn t's publisher (_run).                       *)

Goes(t, from, to) == pub[t].at = from /\ t <= turn /\ pub' = [pub EXCEPT ![t] = to]
Others == UNCHANGED <<ui, call, worker, decode>>

Wakes(t) ==
    LET p == pub[t] IN
    /\ p.wake /\ Goes(t, "wait", [p EXCEPT !.at = "woken"])
    /\ UNCHANGED pending /\ Others

ClearsWake(t) ==
    LET p == pub[t] IN
    /\ Goes(t, "woken", [p EXCEPT !.wake = FALSE, !.at = "look"])
    /\ UNCHANGED pending /\ Others

Pops(t) ==
    LET p == pub[t] IN
    /\ IF p.signals # None
       THEN Goes(t, "look", [p EXCEPT !.target = p.signals, !.signals = None, !.at = "clear"])
       ELSE Goes(t, "look", [p EXCEPT !.at = "all"])
    /\ UNCHANGED pending /\ Others

Clears(t) ==
    LET p == pub[t] IN
    /\ Goes(t, "clear", [p EXCEPT !.signals = None, !.at = "push"])
    /\ UNCHANGED pending /\ Others

TakesAll(t) ==
    LET p == pub[t] IN
    /\ Goes(t, "all", [p EXCEPT !.target = p.ids, !.at = "push"])
    /\ UNCHANGED pending /\ Others

\* decoder.push is taken not to raise: no try surrounds it, so an exception of
\* DecodeStream.step would end the consumer with ids unpublished.
Pushes(t) ==
    LET p == pub[t] IN
    /\ IF p.target > p.consumed
       THEN Goes(t, "push", [p EXCEPT !.consumed = p.target, !.at = "publish"])
       ELSE Goes(t, "push", [p EXCEPT !.at = "check"])
    /\ UNCHANGED pending /\ Others

\* on_text of the app: only the newest frame is kept.
Publishes(t) ==
    LET p == pub[t] IN
    /\ Goes(t, "publish", [p EXCEPT !.published = p.consumed, !.at = "check",
                                    !.callbackStop = @ \/ stop \/ ~running])
    /\ pending' = IF running THEN [turn |-> t, n |-> p.consumed] ELSE pending
    /\ Others

\* (mutant) The consumer leaves on the flag alone.
FinishedFlag(p) == p.closing

Finished(p) == p.closing /\ p.consumed >= p.ids

Checks(t) ==
    LET p == pub[t] IN
    /\ Goes(t, "check", [p EXCEPT !.at = IF Finished(p) THEN "exit" ELSE "wait"])
    /\ UNCHANGED pending /\ Others

Consumer(t) ==
    Wakes(t) \/ ClearsWake(t) \/ Pops(t) \/ Clears(t) \/ TakesAll(t) \/ Pushes(t) \/ Publishes(t) \/ Checks(t)
-----------------------------------------------------------------------------
Worker ==
    \/ Tokens \/ Raises
    \/ SubmitAppend \/ SubmitTest \/ SubmitSignal \/ SubmitWake \/ Answer
    \/ Prefilled \/ Returns \/ CloseFlag \/ CloseSignal \/ CloseWake \/ Join \/ Report

User == Start \/ Interrupt \/ Exit

Next ==
    \/ User \/ TimerRead \/ TimerShow \/ Callback
    \/ Worker
    \/ \E t \in Turns : Consumer(t)

\* Threads and the UI's event loop run; the user need not do anything.
Fairness ==
    /\ WF_vars(Worker)
    /\ WF_vars(TimerShow) /\ WF_vars(Callback)
    /\ \A t \in Turns : WF_vars(Consumer(t))

Spec == Init /\ [][Next]_vars /\ Fairness
-----------------------------------------------------------------------------
(* Properties.                                                             *)

\* When generate goes on after close, every id the turn submitted was
\* decoded and given to on_text, whatever wakeups were skipped or missed.
AllPublished == worker = "report" => P.published = P.ids

\* A frame that is waiting or being rendered belongs to the message of the
\* turn on screen, never to an earlier one.
OwnFrames ==
    /\ pending # None => pending.turn = turn
    /\ frame # None => frame.turn = turn /\ busy

\* A turn that was cut short (no end of sequence, tokens left, no error) is
\* reported as interrupted, and only a turn the user interrupted is.
CutReported ==
    call = "done" => /\ ~P.hitEos /\ produced < MaxTokens => stopped
                     /\ stopped => stop

\* A turn always ends, unless the application does.
TurnEnds == busy ~> (~busy \/ ~running)

\* A sleeping consumer with a signal waiting is about to be woken.  It is
\* not: submit tests the deque before it appends, the consumer empties it in
\* between, and the new signal keeps every later submit from waking it.
NoLostWakeup ==
    \A t \in Turns : pub[t].at = "wait" /\ ~pub[t].wake /\ pub[t].signals # None =>
        t = turn /\ worker \in {"wake", "closeWake"} /\ (worker = "wake" => shouldWake)
=============================================================================
