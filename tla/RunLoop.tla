------------------------------ MODULE RunLoop ------------------------------
(***************************************************************************)
(* The run loop of the explorer (src/ui/App.tsx): when the algorithm is    *)
(* run again after its inputs change, and what tells the user that the     *)
(* trace on screen is not the trace of the inputs on screen.               *)
(*                                                                         *)
(* A settings record stands for everything a run reads: the run it would   *)
(* be, and how the typed input and key fit the spec.  The effect           *)
(* that watches the spec, the two fields and the IV flushes inside the     *)
(* write it reacts to, so a handler and the effect are one action; the     *)
(* debounce timer, the decoding of a share link and the reading of a file  *)
(* end in tasks of their own.                                              *)
(***************************************************************************)
EXTENDS RunHistory

CONSTANTS
    Fits,       \* "ok" and any of "bad", "resync" and "long", see RunOn
    Toggles,    \* which ways the auto-rerun checkbox is clicked
    BootLinks,  \* subset of {"none", "valid", "broken"}: the URL hash at boot
    MaxEdits,   \* bound of the model: edits and loads in a behaviour
    NoTrace     \* null

ASSUME FitsAssumption == "ok" \in Fits /\ Fits \subseteq {"ok", "bad", "resync", "long"}
ASSUME TogglesAssumption == Toggles \subseteq {"on", "off"}
ASSUME BootLinksAssumption == BootLinks \subseteq {"none", "valid", "broken"}
ASSUME MaxEditsAssumption == MaxEdits \in Nat
ASSUME NoTraceAssumption == NoTrace \notin Runs

VARIABLES
    config,     \* the live settings
    trace,      \* the run whose trace is shown, or null
    autoRerun,  \* the checkbox
    dirty,      \* "edits pending", shown in manual mode only
    error,      \* the error banner: "none", or whose error it shows
    timer,      \* a debounced run is scheduled
    boot,       \* the hash that onMount has still to deal with, or "done"
    tick,       \* flips with every debounced run, which may change no more
    edits       \* edits and loads so far

loop == <<config, trace, autoRerun, dirty, error, timer, boot, tick, edits>>
vars == <<history, nextId, config, trace, autoRerun, dirty, error, timer, boot, tick,
          edits>>

Config == [run : Runs, fit : Fits]

\* The run with its spec rebuilt at another key length.
Rebuilt(run) ==
    {r \in Runs : r.mode = run.mode /\ r.input = run.input /\ r.key = run.key}

\* The run loop watches the inputs from the first successful run on.
hasRunOnce == trace # NoTrace

-----------------------------------------------------------------------------
(***************************************************************************)
(* The watching effect and run().                                          *)
(***************************************************************************)

\* Mutant of Scheduled: no run is.
NeverScheduled(pending) == pending

\* Mutant of Scheduled: a scheduled run is cancelled in auto mode only.
ScheduledUncancelled(pending) == pending \/ (hasRunOnce /\ autoRerun)

\* A write of a watched input cancels the scheduled run; auto mode schedules
\* another, manual mode raises the dirty flag.
Scheduled(pending) == IF hasRunOnce THEN autoRerun ELSE pending
Flagged(flag) == flag \/ (hasRunOnce /\ ~autoRerun)

Succeeds(c) ==
    /\ trace' = c.run
    /\ error' = "none"
    /\ dirty' = FALSE
    /\ PushSnapshot(c.run)

\* Mutant of Fails: the banner is not raised.
FailsSilently(flag) == error' = "none" /\ dirty' = flag /\ UNCHANGED <<trace, store>>

Fails(flag) ==
    /\ error' = "run"
    /\ dirty' = flag
    /\ UNCHANGED <<trace, store>>

\* run() on the settings c, entered with the timer and flag as they stand.
\* "ok" runs.  "bad" does not parse, has the wrong length or throws in a step.
\* "resync" is a KMAC key of another length than the spec declares: the spec
\* is rebuilt at the typed length first.  "long" is a KMAC key beyond the
\* longest the spec can declare: it is rebuilt at that length and rejected.
RunOn(c, pending, flag) ==
    \/ /\ c.fit = "ok"
       /\ config' = c /\ timer' = pending
       /\ Succeeds(c)
    \/ /\ c.fit = "bad"
       /\ config' = c /\ timer' = pending
       /\ Fails(flag)
    \/ /\ c.fit = "resync"
       /\ \E r \in Rebuilt(c.run) :
             /\ config' = [run |-> r, fit |-> "ok"]
             /\ Succeeds([run |-> r, fit |-> "ok"])
       /\ timer' = Scheduled(pending)
    \/ /\ c.fit = "long"
       /\ \E r \in Rebuilt(c.run) : config' = [run |-> r, fit |-> "long"]
       /\ timer' = Scheduled(pending)
       /\ Fails(Flagged(flag))

-----------------------------------------------------------------------------
(***************************************************************************)
(* Handlers and tasks.                                                     *)
(***************************************************************************)

Init ==
    /\ HistoryInit
    /\ config \in [run : Runs, fit : {"ok"}]
    /\ trace = NoTrace
    /\ autoRerun \in BOOLEAN
    /\ dirty = FALSE /\ error = "none" /\ timer = FALSE
    /\ boot \in BootLinks
    /\ tick = FALSE /\ edits = 0

\* The user acts once the page has mounted; a link may still be decoding.
Mounted == boot # "none"

\* A spec edit, undo, selector change, mode flip, or new input, key or IV.
Edit(c) ==
    /\ Mounted /\ edits < MaxEdits
    /\ c # config
    /\ config' = c
    /\ timer' = Scheduled(timer)
    /\ dirty' = Flagged(dirty)
    /\ edits' = edits + 1
    /\ UNCHANGED <<store, trace, autoRerun, error, boot, tick>>

PressRun ==
    /\ Mounted
    /\ RunOn(config, timer, dirty)
    /\ UNCHANGED <<autoRerun, boot, tick, edits>>

\* Mutant of TimerFires: the timer is not one-shot.
TimerFiresAgain ==
    /\ timer
    /\ RunOn(config, timer, dirty)
    /\ tick' = ~tick
    /\ UNCHANGED <<autoRerun, boot, edits>>

\* 200ms after the last watched write.
TimerFires ==
    /\ timer
    /\ RunOn(config, FALSE, dirty)
    /\ tick' = ~tick
    /\ UNCHANGED <<autoRerun, boot, edits>>

\* setAutoRerun
ToggleAutoRerun(next) ==
    /\ Mounted /\ next # autoRerun
    /\ (IF next THEN "on" ELSE "off") \in Toggles
    /\ autoRerun' = next
    /\ dirty' = (dirty /\ ~next)
    /\ UNCHANGED <<store, config, trace, error, timer, boot, tick, edits>>

\* applyDocument: the settings are replaced, which the effect sees, and run.
ApplyDocument(c) == RunOn(c, Scheduled(timer), Flagged(dirty))

\* The chosen file's text arrives.
LoadFile(c) ==
    /\ Mounted /\ edits < MaxEdits
    /\ ApplyDocument(c)
    /\ edits' = edits + 1
    /\ UNCHANGED <<autoRerun, boot, tick>>

LoadFileFails ==
    /\ Mounted
    /\ error' = "load"
    /\ UNCHANGED <<store, config, trace, autoRerun, dirty, timer, boot, tick, edits>>

\* onMount without a document in the hash: run the defaults.
BootRuns ==
    /\ boot = "none" /\ boot' = "done"
    /\ RunOn(config, timer, dirty)
    /\ UNCHANGED <<autoRerun, tick, edits>>

\* onMount with one: it is decoded asynchronously, then applied.
BootDocument(c) ==
    /\ boot = "valid" /\ boot' = "done"
    /\ ApplyDocument(c)
    /\ UNCHANGED <<autoRerun, tick, edits>>

\* Mutant of BootDocumentFails: the link that does not decode is passed over.
BootDocumentIgnored ==
    /\ boot = "broken" /\ boot' = "done"
    /\ UNCHANGED <<store, config, trace, autoRerun, dirty, error, timer, tick, edits>>

BootDocumentFails ==
    /\ boot = "broken" /\ boot' = "done"
    /\ error' = "load"
    /\ UNCHANGED <<store, config, trace, autoRerun, dirty, timer, tick, edits>>

\* The Run Explorer's buttons.
ExploreHistory ==
    /\ Mounted
    /\ ClearHistory \/ \E id \in 1..MaxId : ToggleSnapshotHidden(id)
    /\ UNCHANGED loop

Next ==
    \/ \E c \in Config : Edit(c) \/ LoadFile(c) \/ BootDocument(c)
    \/ PressRun \/ TimerFires
    \/ \E next \in BOOLEAN : ToggleAutoRerun(next)
    \/ LoadFileFails \/ BootRuns \/ BootDocumentFails
    \/ ExploreHistory

Spec == Init /\ [][Next]_vars

\* The browser fires a due timer and settles a decoding; nobody has to act.
BootEnds == BootRuns \/ BootDocumentFails \/ \E c \in Config : BootDocument(c)
FairSpec == Spec /\ WF_vars(TimerFires) /\ WF_vars(BootEnds)

-----------------------------------------------------------------------------
(***************************************************************************)
(* Properties.                                                             *)
(***************************************************************************)

TypeOK ==
    /\ HistoryTypeOK
    /\ config \in Config
    /\ trace \in Runs \cup {NoTrace}
    /\ autoRerun \in BOOLEAN /\ dirty \in BOOLEAN /\ timer \in BOOLEAN /\ tick \in BOOLEAN
    /\ error \in {"none", "run", "load"}
    /\ boot \in {"none", "valid", "broken", "done"}
    /\ edits \in 0..MaxEdits

Stale == hasRunOnce /\ (config.fit # "ok" \/ trace # config.run)

\* The user is told when the trace on screen is not that of the settings on
\* screen: by a rerun about to happen, the pending-edits banner (which only
\* manual mode shows) or an error.
StaleIsAnnounced ==
    Stale => timer \/ (dirty /\ ~autoRerun) \/ error # "none"

\* Once the page has dealt with its link, an empty screen is explained: there
\* is a trace or an error, although a link skips the run of the defaults.
EmptyIsExplained == boot = "done" /\ trace = NoTrace => error # "none"

\* As far as pushSnapshot compares runs, the newest snapshot of the history is
\* the run on screen.
LatestIsShown == history # <<>> => hasRunOnce /\ SameRun(Last(history).ran, trace)

\* A run that pushSnapshot can tell from the run on screen before it is kept
\* whole as the newest snapshot, also after the history was cleared; an older
\* trace stays the newest only if the two differ in what is never compared.
ChangesArePushed ==
    [][trace' # trace /\ (hasRunOnce => ~SameRun(trace, trace'))
         => history' # <<>> /\ Last(history').ran = trace']_vars

\* The newest snapshot is the run on screen: "if every observable input is
\* identical to the latest snapshot, this run produces an identical trace"
\* (history.ts), "the current run is the most recent snapshot".  The code
\* does not keep it: a run that changes the IV alone is dropped.
NewestIsShown == history # <<>> => Last(history).ran = trace

\* In manual mode the trace changes only when the user runs or loads
\* ("until the user deliberately commits").  The code does not keep it: a run
\* scheduled before the switch to manual mode still fires.
ManualKeepsTrace == [][TimerFires => autoRerun]_vars

\* A scheduled run is of a page that has run.
ScheduledAfterRun == timer => hasRunOnce

\* Manual mode schedules nothing: the one run that can still fire after
\* switching to it was scheduled before, and any later edit cancels it.
ManualSchedulesNothing ==
    [][~autoRerun' => /\ timer' => timer
                      /\ config' # config => ~timer']_vars

\* Auto mode catches up with every edit, or says why it cannot.
AutoCatchesUp ==
    (Stale /\ autoRerun) ~> (~Stale \/ error # "none" \/ ~autoRerun)

\* The loop comes to rest once the user does: the reruns that its own writes
\* schedule die out ("the worst case is one wasted ... runtime call"), unless
\* the user leaves a KMAC key in place that is too long.
RestsUnlessKeyTooLong == <>[](timer => config.fit = "long")

=============================================================================
