----------------------------- MODULE TerminalStream -----------------------------
(***************************************************************************)
(* The output of one run on its way to the screen: the replay buffer that  *)
(* infrastructure/pty/runtime.rs keeps, the events that commands/mod.rs    *)
(* forwards and may drop, and the terminal of                              *)
(* components/OmpLaunchWorkspace.tsx, which shows live frames, reads the   *)
(* replay when it is mounted and polls it afterwards, and stops once the   *)
(* run is over and all is shown.  A tab that is left unmounts its terminal;*)
(* coming back mounts a new one.                                           *)
(*                                                                         *)
(* Frames are numbered from 1 and have a size.  Events of one kind arrive  *)
(* in the order they were sent, so the output events under way are a set   *)
(* that is emptied from its least member; status events come from two      *)
(* threads and arrive in any order.  Answers to reads arrive one at a time,*)
(* because a terminal has one read under way.                              *)
(* Abstracted: what frames contain, input and resizing, and how far the    *)
(* forwarder lags behind, so that any frame's event may find its queue of  *)
(* 64 full.                                                                *)
(***************************************************************************)
EXTENDS Integers, Sequences, FiniteSets

CONSTANTS
    Sizes,       \* sizes of frames
    MaxBytes,    \* MAXIMUM_REPLAY_BYTES
    MaxFrames,   \* MAXIMUM_REPLAY_FRAMES
    MaxBatch,    \* MAXIMUM_BATCH_FRAMES
    MaxPages,    \* pages of the first reading
    MaxPending,  \* frames that wait for their predecessors
    MaxOutput    \* bound: frames a run produces

ASSUME TerminalStreamAssumption ==
    /\ {MaxBytes, MaxFrames, MaxBatch, MaxPages, MaxPending} \subseteq Nat \ {0}
    /\ MaxOutput \in Nat
    /\ Sizes \subseteq 1 .. MaxBytes

VARIABLES
    frames,   \* sizes of the frames in the replay buffer
    run,      \* the run's snapshot: status, first_available_sequence, last_sequence
    reader,   \* "reading", or how the reader thread ended
    listed,   \* whether the registry has the run
    sent,     \* output events under way
    news,     \* status events under way
    read,     \* the terminal's read_pty_output under way
    term      \* the terminal

streamVars == <<frames, run, reader, listed, sent, news, read, term>>
backend == <<frames, run, reader, listed>>

NoRead == [at |-> "none"]
NoTerm == [at |-> "none", listening |-> FALSE, streaming |-> FALSE, seen |-> 0, pending |-> {},
           page |-> 0, mark |-> 0, screen |-> <<>>]

StreamInit ==
    /\ frames = <<>>
    /\ run = [status |-> "running", first |-> 1, last |-> 0]
    /\ reader = "reading"
    /\ listed = TRUE
    /\ sent = {}
    /\ news = {}
    /\ read = NoRead
    /\ term = NoTerm

-----------------------------------------------------------------------------
(* The backend                                                              *)

Bytes(s) == LET sum[i \in 0 .. Len(s)] == IF i = 0 THEN 0 ELSE sum[i - 1] + s[i]
            IN  sum[Len(s)]
Fits(s) == Bytes(s) <= MaxBytes /\ Len(s) <= MaxFrames
\* Frames are dropped from the front until the rest fits.
Retained(s) ==
    LET cut == CHOOSE n \in 0 .. Len(s) : /\ Fits(SubSeq(s, n + 1, Len(s)))
                                          /\ \A m \in 0 .. n - 1 : ~Fits(SubSeq(s, m + 1, Len(s)))
    IN  SubSeq(s, cut + 1, Len(s))

News(snapshot) == [status |-> snapshot.status, last |-> snapshot.last]

\* spawn_output_reader: a frame is numbered and kept, and its event sent if the
\* forwarder has room for it (TauriPtyEventSink::output).
ReaderReads ==
    /\ reader = "reading" /\ run.last < MaxOutput
    /\ \E size \in Sizes : frames' = Retained(Append(frames, size))
    /\ run' = [run EXCEPT !.last = @ + 1, !.first = run.last + 2 - Len(frames')]
    /\ sent' \in {sent, sent \cup {run'.last}}
    /\ UNCHANGED <<reader, listed, news, read, term>>

\* The reader's end, which changes and tells a status that is final already.
ReaderEnds ==
    /\ reader = "reading"
    /\ reader' \in {"eof", "error"}
    /\ IF run.status = "running"
         THEN UNCHANGED <<run, news>>
         ELSE /\ run' = [run EXCEPT !.status = IF reader' = "error" THEN "failed" ELSE @]
              /\ news' = news \cup {News(run')}
    /\ UNCHANGED <<frames, listed, sent, read, term>>

\* spawn_child_waiter: an exit only after the end of the output, a failure also
\* when its waiting is over before.
WaiterPublishes ==
    /\ run.status = "running"
    /\ \E status \in IF reader = "eof" THEN {"exited", "failed"} ELSE {"failed"} :
          run' = [run EXCEPT !.status = status]
    /\ news' = news \cup {News(run')}
    /\ UNCHANGED <<frames, reader, listed, sent, read, term>>

\* close_run or prune_runs.
Removed ==
    /\ listed /\ run.status # "running" /\ reader # "reading"
    /\ listed' = FALSE
    /\ UNCHANGED <<frames, run, reader, sent, news, read, term>>

\* read_output: at most a batch of the frames after the given one.
Batch(after) ==
    LET from == IF after + 1 < run.first THEN run.first ELSE after + 1
        upto == from + MaxBatch - 1
    IN  [run |-> run, from |-> from, upto |-> IF upto < run.last THEN upto ELSE run.last,
         gap |-> after + 1 < run.first]

ReadAnswers ==
    /\ read.at = "sent"
    /\ read' = IF listed THEN [at |-> "answered", batch |-> Batch(read.after)]
                         ELSE [at |-> "failed"]
    /\ UNCHANGED <<backend, sent, news, term>>

-----------------------------------------------------------------------------
(* The terminal                                                             *)

Gap == 0
\* A line that says that output is missing; two of them say no more than one.
Note(t) == IF t.screen # <<>> /\ t.screen[Len(t.screen)] = Gap THEN t
           ELSE [t EXCEPT !.screen = Append(@, Gap)]

\* applyFrame for each of the frames: those that were shown are ignored, a note
\* stands where some are left out.
Show(t, first, upto) ==
    LET from == IF first <= t.seen THEN t.seen + 1 ELSE first
        noted == IF from > t.seen + 1 THEN Note(t) ELSE t
    IN  IF upto < from THEN t
        ELSE [noted EXCEPT !.seen = upto,
                           !.screen = @ \o [i \in 1 .. upto + 1 - from |-> from + i - 1]]

\* The last frame before the first one, after those shown, that is not pending.
Reach(t) == CHOOSE n \in t.seen .. MaxOutput :
               t.seen + 1 .. n \subseteq t.pending /\ n + 1 \notin t.pending

DrainsOnlyNext(t) == [Show(t, t.seen + 1, Reach(t)) EXCEPT !.pending = @ \ (t.seen + 1 .. Reach(t))]
\* drainPending: frames shown meanwhile are forgotten, and those without a gap shown.
Drain(t) == LET shown == Show(t, t.seen + 1, Reach(t))
            IN  [shown EXCEPT !.pending = {f \in @ : f > shown.seen}]

\* onFrame: a frame that cannot be shown yet waits; beyond the limit, the one that
\* waits longest is given up.
Waits(t, f) ==
    LET waiting == t.pending \cup {f}
    IN  [t EXCEPT !.pending = IF Cardinality(waiting) <= MaxPending THEN waiting
                              ELSE waiting \ {CHOOSE g \in waiting : \A h \in waiting : g <= h}]
ShowsAnyway(t, f) == Show(t, f, f)
OnFrame(t, f) ==
    IF t.at = "hydrating" \/ f > t.seen + 1 THEN Waits(t, f) ELSE Show(t, f, f)

IsOver(t, snapshot) == snapshot.status # "running"
\* maybeStopStreaming: the run is over and everything up to its last frame shown.
MayStop(t, snapshot) ==
    snapshot.status # "running" /\ t.seen >= snapshot.last /\ t.pending = {}
MaybeStop(t, snapshot) ==
    IF MayStop(t, snapshot) THEN [t EXCEPT !.streaming = FALSE, !.listening = FALSE] ELSE t

Mounts ==
    /\ term.at = "none"
    /\ term' = [NoTerm EXCEPT !.at = "subscribing", !.streaming = TRUE]
    /\ UNCHANGED <<backend, sent, news, read>>

\* The tab is left or closed; what arrives later is for nobody.
Unmounts ==
    /\ term.at # "none"
    /\ term' = NoTerm
    /\ read' = NoRead
    /\ UNCHANGED <<backend, sent, news>>

Asks(after) == read' = [at |-> "sent", after |-> after]

\* hydrate: the subscription, which may fail, and the first read.
Subscribes ==
    /\ term.at = "subscribing"
    /\ \E ok \in BOOLEAN : term' = [term EXCEPT !.at = "hydrating", !.listening = ok]
    /\ Asks(0)
    /\ UNCHANGED <<backend, sent, news>>

OutputArrives ==
    /\ sent # {}
    /\ LET f == CHOOSE f \in sent : \A g \in sent : f <= g
       IN  /\ sent' = sent \ {f}
           /\ term' = IF term.listening THEN OnFrame(term, f) ELSE term
    /\ UNCHANGED <<backend, news, read>>

StatusArrives ==
    /\ \E snapshot \in news :
          /\ news' = news \ {snapshot}
          /\ term' = IF term.listening THEN MaybeStop(term, snapshot) ELSE term
    /\ UNCHANGED <<backend, sent, read>>

\* What the terminal does with a batch, whoever asked for it.
Takes(t, batch) ==
    LET noted == IF ~batch.gap THEN t
                 ELSE [Note(t) EXCEPT !.seen = IF @ < batch.run.first - 1 THEN batch.run.first - 1 ELSE @]
    IN  MaybeStop(Drain(Show(noted, batch.from, batch.upto)), batch.run)

\* The end of hydrate.
GoesLive(t) == Drain([t EXCEPT !.at = "live", !.page = 0, !.mark = 0])

AtPage(t) == [t EXCEPT !.page = @ + 1, !.mark = IF term.page = 0 THEN read.batch.run.last ELSE @]
\* A page of hydrate: up to where the output was at the first page, or as many pages
\* as are allowed.
TakesPage ==
    /\ term.at = "hydrating" /\ read.at = "answered"
    /\ \E t \in {Takes(AtPage(term), read.batch)} :
          IF read.batch.upto < read.batch.from \/ t.seen >= t.mark \/ t.page = MaxPages
             THEN term' = GoesLive(t) /\ read' = NoRead
             ELSE term' = t /\ Asks(t.seen)
    /\ UNCHANGED <<backend, sent, news>>

Polls ==
    /\ term.at = "live" /\ term.streaming /\ read.at = "none"
    /\ Asks(term.seen)
    /\ UNCHANGED <<backend, sent, news, term>>

TakesPoll ==
    /\ term.at = "live" /\ read.at = "answered"
    /\ term' = Takes(term, read.batch)
    /\ read' = NoRead
    /\ UNCHANGED <<backend, sent, news>>

\* The run is gone: a note ends hydrate, a poll is forgotten.
ReadFails ==
    /\ read.at = "failed"
    /\ term' = IF term.at = "hydrating" THEN GoesLive(term) ELSE term
    /\ read' = NoRead
    /\ UNCHANGED <<backend, sent, news>>

Backend == ReaderReads \/ ReaderEnds \/ WaiterPublishes \/ Removed
Terminal == Subscribes \/ Polls \/ ReadAnswers \/ TakesPage \/ TakesPoll \/ ReadFails
User == Mounts \/ Unmounts
StreamNext == Backend \/ Terminal \/ User \/ OutputArrives \/ StatusArrives

StreamSpec == StreamInit /\ [][StreamNext]_streamVars

\* A mounted terminal's timer fires and its reads are answered.  No event has to
\* arrive, no run has to end, and nobody has to keep the tab open.
StreamFairSpec ==
    /\ StreamSpec
    /\ WF_streamVars(Subscribes \/ Polls)
    /\ WF_streamVars(ReadAnswers)
    /\ WF_streamVars(TakesPage \/ TakesPoll \/ ReadFails)

-----------------------------------------------------------------------------
(* Properties                                                               *)

\* "Dropped notifications remain recoverable from replay": the terminal goes past a
\* frame without showing it only when the replay has lost it, whatever became of
\* its event, and then says so on the screen.
OnlyLostIsSkipped ==
    [][\A n \in term.seen + 1 .. term'.seen :
          (\A i \in DOMAIN term'.screen : term'.screen[i] # n) =>
              /\ n < run.first
              /\ \E i \in DOMAIN term'.screen : i >= Len(term.screen) /\ term'.screen[i] = Gap
      ]_streamVars

\* Whether lines come from the first reading, the poll or events, between two notes the
\* screen shows the output as it was written: nothing twice, out of order or missing
\* (applyFrame and drainPending).
AsWritten(screen) ==
    \A i \in DOMAIN screen : screen[i] # Gap =>
        /\ \A j \in 1 .. i - 1 : screen[j] < screen[i]
        /\ screen[i] = 1 \/ (i > 1 /\ screen[i - 1] \in {Gap, screen[i] - 1})
ShownAsWritten == AsWritten(term.screen)

\* A terminal stops listening and polling for an exited run only when it has been
\* through all of its output, also if the news of the exit overtook the output
\* (maybeStopStreaming).
StopsWithAll ==
    term.at # "none" /\ ~term.streaming /\ run.status = "exited" => term.seen = run.last

\* A terminal that stays open comes to the end of an exited run and stops, though any
\* of its events may be lost, unless the run is removed first (the poll of
\* TerminalSurface).
CatchesUp ==
    run.status = "exited" /\ term.streaming ~> ~term.streaming \/ ~listed
=============================================================================
