# Cryptographer: a verification development

Cryptographer is a browser application that shows how ciphers, hashes and
public-key schemes work. A cipher is *data*: a spec, a tree of steps wired port
to port. A runtime interprets the spec and records a frame for every step; the
user scrubs through the frames, edits the spec, drags its graph around, undoes,
duplicates rounds, compares runs, shares the result as a link. Paths below are
relative to `src/src/` unless they start with `docs/`.

Two things are hard in this program. Half a dozen stores (specs, layout,
selectors, trace, history, gesture, timers) are written by independent handlers
and must keep agreeing: those modules follow the code handler by handler. And
nearly every fact is told twice by hand: a decrypting spec beside an encrypting
one, a drawing beside the wiring, an inspector's sentence beside the executor, a
schema beside the types, a drawn key schedule beside a computed one: those
modules translate both accounts and compare them, or compare one with the
definition of what it computes.

## How to run it

    tlc -workers 2 -config EditHistoryQuiet.cfg MCEditHistory
    tlapm EditHistoryProofs.tla

Every run finishes within four minutes on two workers, most of them within
one. The two runs named below as *counterexamples* are expected to end with a
violation: each shows the code doing something that a comment in the repository
rules out.

## Inventory

| Component | State | Operations | Interacts with | Hard part | Correct when |
|---|---|---|---|---|---|
| Edit history (`ui/stores/edit-history.ts`) | undo and redo stacks, last restored references, gesture flag and snapshot | capture on every write, undo, redo, begin/end/cancel of a gesture, boundary reset | observes specs and layout; called by every panel, the graph and the keyboard | a gesture spans many tasks; a selector change must not be undone | stacks are a timeline, no entry crosses a boundary |
| Run loop (`ui/App.tsx`, `ui/stores/auto-rerun.ts`) | input, key, IV, checkbox, dirty flag, error, debounce timer, boot state | edit, run, toggle, load, boot | reads specs and fields; writes trace, history and (KMAC) specs | its own writes wake the effect that schedules it; boot decodes asynchronously | a stale trace is announced, auto mode catches up and comes to rest |
| Run history (`ui/stores/history.ts`) | ring of snapshots, next id | push with duplicate check, hide, clear | fed by run(), read by Run Explorer | eviction; a delta refers to a neighbour that may go | ids and deltas link neighbours, what a delta leaves out is known, a run that differs is kept |
| Trace focus (`ui/stores/trace.ts`, `keyboard.ts`) | trace, frame index, selected step | new trace, scrub, select, group keys | written by run(), read by the editor and the views | index and selection point into the trace before last | editor and scrubber show one step, a rerun keeps it |
| Duplicate round (`core/spec-mutations.ts`, `spec.ts`, `layout.ts`) | both specs, both layouts | duplicate, mirror, edit, reset, pin | one batch over specs and layouts, then the edit history | ids, keys, wires, exit and pins are renumbered together, in lists renumbered before | every key read once and in order, decryption undoes encryption, pins follow |
| Wiring editor, other mutations, composites, validator (`core/port-sources.ts`, `wiring.ts`, `spec-mutations.ts`, `composites.ts`, `spec-shapes.ts`) | the armed port, saved templates | offer, bind, clear, arm; insert, delete, capture and clone a group | runtime, graph view | the scope rules are written three times; ids are generated; the spec changes between arming and binding | what is offered resolves, what throws is warned of, a saved element stands alone |
| Selectors, fields, mode, padding, IV and forward-input stores (`cipher.ts`, `spec.ts`, `cipher-mode.ts`, `padding.ts`, `iv.ts`, `forward-input.ts`, `App.tsx`) | algorithm, mode of operation, padding, IV, lengths, direction, the typed texts, the saved input | every dropdown, field and button of the toolbar; save, load, reload | rebuild both specs; watched by the run loop | which selectors a spec was built for is recorded nowhere; widths differ by algorithm and mode | selectors describe the specs, the fields suit them, a saved session computes the same again |
| Modes of operation (`ciphers/modes/`, padding steps) | none: specs | ECB, CBC, CFB, OFB, CTR with each padding | block ciphers, runtime, `run()` | partial last block, carried value differs by direction | decryption returns the message |
| Block ciphers (`ciphers/*-builder*.ts`) | none: specs | encrypting and decrypting spec, key schedule | modes, duplicate round | the inverse is index arithmetic of its own | each direction retraces the other; both agree with the oracle |
| Stream ciphers, generators, RSA, hashes, lattice schemes (`ciphers/`) | none: specs | one pipeline each | runtime, steps | carried counters, unrolled loops, padding at the edge, retries | each is its definition |
| Steps and codecs (`steps/`, `core/*-codec.ts`) | none | 119 executors, conversions | runtime | lengths, carries, zero | exact on rows of bytes |
| Runtime (`core/runtime.ts`) | none between runs | interpret a spec | executors, trace | scopes of nested groups, loop suffixes, feedback, the stop flag | outputs by scope, every frame recorded |
| Graph derivation, transforms, inspector (`core/graph.ts`, `edge-value-lookup.ts`, `port-provenance.ts`) | collapse, replication, scrubber | derive, collapse, chip, replicate, look a value up | trace, graph view | transforms compose; a value depends on the block scrubbed to | the pane shows the spec, the inspector what was read |
| Round shapes and layouts (`core/*-shape.ts`, `*-layout.ts`) | none | recognise a round, place its leaves | graph view | a rewired round must lose its picture | a picture is the wiring |
| Canvas, layout store, density (`GraphView.tsx`, `layout.ts`, `view-density.ts`) | pins, collapse, replication, the drag, the density | drag, collapse, expand, reset, rescale, undo | graph, edit history | layout is recomputed under the pointer; pins are rounded | boxes nest, arrows end on dots, the held node stays under the pointer |
| View preferences (`ui/stores/view-*.ts`, `format.ts`, `core/source-*.ts`) | one choice each, by spec or by source | choose, reset, reload | localStorage | two vocabularies per choice; failing writes, old values | what was chosen is shown |
| Documents and share links (`document.ts`, `document-schema.ts`, `url-share.ts`, `App.tsx`) | pending file and link, banner, error | save, load, share, boot | all stores | fields listed by hand; texts arrive in any order | a document comes back as it was saved |
| Narration, panels | none or one signal | rendering | read the others | - | looks |

JavaScript runs one task at a time, and SolidJS flushes an effect inside the
write (or the `batch`) that triggers it. So a handler together with every
effect it wakes is one action; what splits into several actions is what really
is several tasks: pointerdown, move and up; a debounce timer; the decoding of a
link; the reading of a file.

`PROJECT.json` lists every component with its files, and the hazards line by
line.

## The modules

Stateful components have a module each; `Runtime` and `GraphInspector` compose,
and so do `RunHistory` and `RunLoop`. The parts that share no state (steps,
pipelines, drawings, the pane, documents, preferences) are families over one
variable `job`, declared in `Bench`, and `Primitives` runs them side by side.

### EditHistory, refining UndoTimeline

`EditHistory.tla` is `ui/stores/edit-history.ts` with all the operations that
write the stores it observes. Stores never mutate in place and the code compares
references, so a spec or a layout is the *number of the write that made it*; a
spec reference also carries the selectors it was built for, since those are kept
outside a snapshot. Variables have the names of the code's signals.
`CaptureTransition` is the observer (lines 143-189), with its two early returns;
`PushUndo` is `pushUndo`, `ApplySnapshot` the guarded restore, `SwitchSelector`
is `withBoundaryReset`. Three kinds of layout write differ in how they treat a
gesture: the toolbar's cancel it, the stroke and single-pin operations do not,
and a density change is made with capture suppressed.

`MidDragInputs` says what else may act while a node is held: nothing, the
shortcut keys, or anything (a keyboard edit, a selector, an arriving document, a
second pointer after a lost pointerup). `KmacSelectors` says which settings
select KMAC, where `run()` itself may rebuild the spec.

`UndoTimeline.tla` says what a user expects, without stacks, references or
gestures: a line of states with a cursor. The refinement mapping lines up the
undo stack, the present and the reversed redo stack; while a drag is open the
present is the pre-drag snapshot, so its moves stutter and its end is one edit.

### RunHistory and RunLoop

`RunHistory.tla` is the ring of `history.ts`. A run has a mode, the bytes of its
input and key, the parameters that `compareSpecs` visits and an `unseen` part that
nothing compares (the IV, the port wiring, the cipher constants). `Delta` is
`computeDelta`, byte by byte with a missing byte read as zero; `SameRun` is what
`isIdenticalToPrev` asks, which differs from it: lengths and the mode count there.
So two snapshots may have an empty delta between them, and a dropped run may have
another trace.

`RunLoop.tla` extends it with `App.tsx`: `RunOn` is `run()` with its four
outcomes (success, error, KMAC resync, KMAC key too long), `Scheduled` and
`Flagged` are the watching effect, which clears the timer and either schedules
another run or raises the dirty flag; `autoRerun` is read when the effect runs
and not watched. `config` is the run that the settings would make and how the
typed key fits the spec (`fit`), `trace` is the run whose trace is shown, so
staleness is a relation between the two. `tick` flips with each debounced run,
so that a run which changes nothing else is still a step and an endless loop of
them shows.

### TraceFocus

`TraceFocus.tla` is `setTrace`, `setFrame` and `setSelectedStepId` with the keys
of `keyboard.ts`. A frame is its step, the loop pass that emitted it (the suffix
that `canonicalStepId` strips) and its top-level group. Positions count from 0
as in the code.

### DuplicateRound

`DuplicateRound.tla` is `duplicateRoundGroup` in both directions,
`duplicateRoundInSpec` with its best-effort mirror and `renameLayoutIds`. A
round is its number, the key it reads, the node that feeds it and its matrix; a
spec is the list of rounds, the first key, the number of rounds the schedule is
built for and the exit. `Output` runs a spec symbolically: the result is the
sequence of operations applied, and decryption undoes encryption when its
sequence is the reverse. A layout's positions are a list of entries because
`renameLayoutIds` writes them one by one in insertion order, and a later entry
overwrites an earlier one of the same name. `Exit` is where the result is read:
`spec.outputFrom` for a single block, or an iterate's `bodyOutput` under a mode
of operation.

### SpecEditing

`SpecEditing.tla` is what the user does to the wiring of a spec. Three walks over
the tree decide what an input port can read, each written by hand:
`core/runtime.ts` when it runs (`SeenBy`, `AtExit`, `Throws`), the validator
`core/spec-shapes.ts` before (`Accepted`, `Warned`), the enumerator
`core/port-sources.ts` when a dropdown opens or a port is armed
(`LegalSources`). All three are translated, with the differences they have: the
validator takes `$input` in every scope and counts a loop's harvest among its
outputs, the enumerator does neither.

A spec is kept flat: the body of each scope, a record for each node and the set
of containers around it. Bytes are left out here, so a binding resolves or it
does not, and a loop runs at least once. An id is the sequence of its dotted
parts, each a name with the number that made it unique: `round-2.sub` is
`<<<<"round", 2>>, <<"sub", 0>>>>`. Actions are the store operations: dropping a
step or a saved element in any slot that `resolveDropAnchor` can name, removing
a node, the wiring dropdown, arming a port and clicking a source on the canvas,
saving a group as an element, deleting an element, resetting.

### Selectors

`Selectors.tla` is everything a click on the toolbar does before a run: the
selectors of algorithm, mode of operation, padding, direction and lengths, the
input, key and IV fields, the pair of specs that `spec.ts` builds from them, and
what `run()`, saving, loading and a page reload do with all of it. A spec is a
record of the selections it was built for, with "edited" beside it. Setters are
operators from settings to settings, composed as the handlers compose them, and
the effects that watch the settings run inside each write (`ReconcileIvWidth`,
`Recorded`, the availability rules of modes and paddings). A field holds a
sample or text that does not parse; a file chosen earlier may settle at any
later time.

`Watched` is the effect's list: the active spec, input, key and IV, and nothing
else of the settings. `Seen` says when the effect wakes (a change, or possibly a
new object equal to the old), `Scheduled` and `Flagged` what it then does in auto
and in manual mode; `TimerFires` is the debounced run, at any later time.
`RunInputs` is what a run reads, which is more than what is watched: whether the
one follows the other is `ScreenCatchesUp`.

### BlockModes and BlockCiphers

`BlockModes.tla` is `ciphers/modes/*.ts` with the padding steps, the padding
overlay, the block loop of the runtime and the length checks of `run()`, over a
block cipher that is a constant with the assumption that it can be inverted. One
step is one block; at the end of the first run the direction flips and its
output becomes the input.

`BlockCiphers.tla` is the rounds of AES, Serpent, DES, Blowfish, Twofish and
Speck in both directions, one spec node a step. What a round computes of its
half or word is a constant. `BlockCiphersProofs` discharges what `BlockModes`
assumes.

### Runtime, GraphTransforms and GraphInspector

`Runtime.tla` is `runSpec`. The recursive `walk` becomes a stack of activations,
with the outputs recorded in each scope, the block and round numbers that suffix
frame ids, and the locals of a loop (chain, harvest, stop flag, lookback keys
that are set and restored around each body). Executors are the constant `Exec`.

`GraphTransforms.tla` has graphs and what the pane does to one: collapse a
container, show its blocks as chips, replicate a source with many consumers,
find the edges that run back. `GraphInspector.tla` extends both: the graph
derived from spec and trace, the transforms switched on and off, the scrubber,
the warnings, and the value that `edge-value-lookup.ts` shows for an edge or a
node at the block of the frame.

### The families over one job

- `Bytes`: rows of bytes, words and the arithmetic of `core/`, with the steps
  that work on them; numbers are pairs of 16-bit halves where 32 bits matter.
  `StepRows`: one step of a trace, and for each output cell the cells that
  `port-provenance.ts` says it is made from and the sentence that
  `cell-provenance-summary.ts` makes of it.
- `StreamCiphers`: Salsa20, ChaCha20 and the ChaCha20 generator as pipelines on
  big-endian words, beside the definition on little-endian matrices.
  `Generators`: RSA with the unrolled Euclid and power, the linear congruential
  generators, the Mersenne twister.
- `Hashes`: SHA-256 and the SHA-3, SHAKE, cSHAKE and KMAC sponges as drawn, the
  byte reader of `keccak-compute.ts`, beside their definitions.
- `MlKem`: steps on vectors modulo q, the drawn number-theoretic transform, K-PKE
  and ML-KEM with its re-encryption. `MlDsa`: rounding, hints, sampling, keys,
  the signing loop with its rejections, and verification.
- `CipherTables`: the tables typed into `ciphers/`. `KeyedCiphers`: the six block
  ciphers at their real sizes with their drawn key schedules, the one-step
  schedules of older documents, and the oracles of the tests.
- `RoundShapes`: how a container is recognised as a Feistel, Twofish, ARX or
  butterfly round from its wiring. `RoundLayouts`: the rounds as the ciphers
  build them, edits of them, and where each picture puts their leaves.
- `Documents`: the schema as data (`Refused` and `Read` are what zod does with
  it), the migrations, base64url, and how the page takes in a link and files.
- `Preferences`: the stores that keep a choice in localStorage, the density with
  the pins it rescales, colours and strokes of arrows.

### CanvasGeometry and Canvas

`CanvasGeometry` has the boxes, arrows, dots and drop slots of the graph pane.
`Canvas` is the layout store with one pointer over it: a drag is a press, moves and
a release, and remembers, as the closure of `startNodeDrag` does, where the node
was and the interior of its parent when the pointer went down. While the node is
held, the store may change under it: a collapse of the node, of its parent or of a
sibling, a change of density, a replication, a cleared pin, a reset. The picture is
recomputed after every step. Pins in whole pixels under nothing but changes of
density have a state of their own (`PinJob`).

### MC modules and proof modules

`MCEditHistory`, `MCRunLoop`, `MCTraceFocus`, `MCDuplicateRound`,
`MCSpecEditing`, `MCBlocks`, `MCGraphInspector` and `MCPrimitives` declare the
model values and the small sets; `MCBlocks` runs `BlockModes` and
`BlockCiphers`, one of them at a time. `Selectors` needs no more than literal
sets, which its configuration gives. `EditHistoryProofs`, `RunLoopProofs` (run
loop and run history), `TraceFocusProofs`, `DuplicateRoundProofs`,
`SpecEditingProofs`, `SelectorsProofs`, `BlockModesProofs` and
`BlockCiphersProofs` hold the theorems. Operators commented as a *mutant* state
a plausible mistake in a definition that follows them; nothing uses them, and
each property was seen to fail when one is put in place of its original.

## What is checked

Properties with several parts are conjunctions of named ones, each stated with
its comment where it is defined.

| Configuration (module) | Properties | What it shows |
|---|---|---|
| `EditHistoryQuiet.cfg` (MCEditHistory) | BoundaryRule, ImplementsTimeline, OnlyMovesCommit | With nothing else acting during a drag and no KMAC, the history *is* an undo timeline: no entry crosses a boundary, a click commits nothing |
| `EditHistoryAnyInput.cfg` (MCEditHistory) | HistoryBound, ToolbarOpsUndoable | With anything acting during a drag, including a lost pointerup and KMAC resyncs, the cap holds (although `redo` does not apply it) and toolbar operations can be undone |
| `RunLoopAnnounced.cfg` (MCRunLoop) | StaleIsAnnounced, EmptyIsExplained, HistoryIsLinked, ChangesArePushed, ManualSchedulesNothing, AutoCatchesUp, RestsUnlessKeyTooLong | Any boot, any key: unless auto-rerun is switched on over pending edits, a stale trace is announced; a page without a trace shows an error once the link is dealt with; auto mode catches up and rests; manual mode schedules nothing; the ring stays linked, its deltas leave out a mode or a length at most, and a run that the duplicate check tells from the one before is kept |
| `TraceFocus.cfg` (MCTraceFocus) | EditorAndScrubberAgree, NewTraceKeepsFocus, PageDownSkipsNoGroup | However the user scrubs, selects and reruns, editor and scrubber show one step |
| `DuplicateRoundSingle.cfg` (MCDuplicateRound) | RoundsChained, KeysInOrder, DuplicationKeepsInverse, PinsFollowRounds | Whatever is duplicated on either side, edited or reset in between, keys are read in order, the specs stay inverse and pins follow |
| `DuplicateRoundBlocks.cfg` (MCDuplicateRound) | DuplicationKeepsInverse | *Counterexample*: in ECB the iterate goes on reading the old last round, so a duplication drops the final one |
| `SpecEditing.cfg` (MCSpecEditing) | EditorSeesTheSpec, OfferedSourcesResolve, ElementsStandAlone, NewWiresResolve | However a spec is rewired, cut, extended, saved from and dropped into: enumerator, validator and runtime agree up to the differences named above, ids never collide, a saved element stands alone and runs where it is dropped, a wire made on the canvas resolves even if the spec changed after arming |
| `Selectors.cfg` (Selectors) | SelectorsFitSpec, ScreenCatchesUp, InputsComeBack | After any four handlers, in auto or manual mode and with the debounced run at any time, with documents saved on the way loaded at any later time or after a reload: the dropdowns describe the specs, the fields suit them, what the effect watches is enough for the trace to catch up with every setting that a run reads, a saved session computes again what it computed, and a flip there and back restores what was signed or encapsulated |
| `Blocks.cfg` (MCBlocks) | ModeIsCorrect, DecryptionMirrors | A message of up to three blocks there and back in every mode and padding: nothing throws, lengths and carried values agree, no counter block repeats, the message returns; every block of small words through all six ciphers: decryption retraces encryption node by node |
| `TraceGraph.cfg` (MCGraphInspector) | RunIsMeant, PaneShowsTheSpec, InspectorTellsTheTruth | A hash, a signing loop, a stream mode and some fifty damaged forms of them: a run computes what is meant or stops where predicted; however the graph is then collapsed, replicated and scrubbed, every node is drawn once, no flow is lost, the layout's graph is acyclic, and hovers, chips, clicks and colours tell what the run did |
| `Primitives.cfg` (MCPrimitives) | StepsAreExact, NumbersAreTheDefinition, HashesAreTheDefinition, LatticeSchemesHold, KeyedCiphersAgree, PicturesAreTheWiring, CanvasHolds, DocumentsComeBack, ChoicesAreKept | Each family beside its definition or its second account; see below |
| `PinDrift.cfg` (MCPrimitives) | PinsStayWithinAPixel | *Counterexample*: a pin is more than a pixel off after a few changes of density |

What the properties of `Primitives` hold together:

- *StepsAreExact*: changing a byte of an input changes only cells that name it as
  a source, and the inspector's sentence follows from the cells; bits move as
  rotations and shifts say; sums wrap; the matrix that the editor derives is an
  inverse, or is refused.
- *NumbersAreTheDefinition*: keystreams equal the block functions of Salsa20 and
  ChaCha20 through counter carries, and encryption is its own inverse; the
  unrolled Euclid is long enough for every exponent; RSA decrypts; generators
  follow their recurrences and cuts.
- *HashesAreTheDefinition*: state after every round; padding at every edge; no
  two sponge requests absorb the same bytes.
- *LatticeSchemesHold*: the transform multiplies in the ring, drawn or collapsed;
  compression stays within its error; decapsulation gives the secret, or the
  implicit one for a changed ciphertext; hints recover high bits and have one
  encoding; signatures verify and changed ones do not; every attempt has a fresh
  mask and a rejected one leaves nothing.
- *KeyedCiphersAgree*: drawn key schedules equal the one-step executors;
  ciphertexts equal the oracles'; decryption recovers; DES complements.
- *PicturesAreTheWiring*: after edits too, a round drawn by its picture computes
  what the picture shows, an unedited one is recognised, and nothing is drawn
  over anything.
- *CanvasHolds*: boxes nest, arrows spread and end on their dots, gutters open
  every slot; toggles flip one container; with every move a held node is under
  the pointer and its siblings stay, although a container was collapsed, the density
  changed, a source replicated or the layout reset since it was picked up, and what
  was edited meanwhile is kept; a pin is within three pixels of where it was set
  when its density returns (the one pixel that the source speaks of is
  PinDrift's).
- *DocumentsComeBack*: a saved document reads back whole, versions 1 and 2
  migrate, unknown fields are refused where the schema is strict; link bytes
  return; in any order of arrival the page shows the last intact document under
  no older error.
- *ChoicesAreKept*: what is shown is what was asked, over reloads, failed writes
  and what older versions stored; over three writes pins stay within two pixels of
  where they were dropped, at the scale of the density; no two of 640 sources look
  alike.

### Bounds, and why they suffice

- `MaxUndo = 2` (50 in the code) lets both eviction and a redo stack of two
  happen. `MaxRefs` bounds the writes in a behaviour: five are enough to fill,
  evict, open a drag, move and commit. Undo, redo and gestures mint nothing and
  are unbounded.
- `MaxHistory = 2` (5 in the code) makes eviction frequent; `MaxId = 5` lets
  four snapshots be numbered past it; `MaxEdits` bounds only what the user does,
  never the reruns the loop causes itself, so that liveness is about the loop.
  The four runs of `MCRunLoop` differ from the first in one part each: a
  parameter, the IV, and an input longer by a zero byte. The code only compares
  a run with the one before, and treats input and key alike.
- Traces of one to eight frames, with a loop of up to three passes, steps
  missing on either side and the empty trace; positions are only compared.
- Three rounds have a first, an inner and a final one, which is what duplication
  distinguishes; two duplications let the second meet what the first renumbered,
  on either side. Two pins let one be moved onto the other. The two positions
  are only compared with each other, so they are symmetric; symmetry is
  declared in `DuplicateRoundSingle.cfg`, which checks no liveness.
- The spec of `MCSpecEditing` has one of each: a lifted step, a chaining loop
  with a harvest and a stop flag, in it a group with a seed and a body without
  one, and a consumer of the harvest after it. Three edits (`MaxEdits`) let a
  group be saved, cut and dropped, or a step be dropped, wired and its source
  removed; a reset is free; an armed port reserves one edit so that it can
  always be bound.
- `Selectors.cfg` offers one algorithm of each kind of table row, and two lengths
  beside a text that does not parse; `MaxActs = 4` lets a document be saved, the
  screen changed twice and the document loaded, or two selectors be changed
  between an edit and a run. Reruns are free. The theorems lift every one of these.
- `Blocks.cfg`: for the modes, blocks of two bytes of four values, so that an
  input length can be under, on and over a block, a padding byte can be mistaken
  for data, and the counter carries; for the ciphers, words of two bits and ten
  Serpent rounds, so that its eight S-boxes come round. The theorems lift all of
  these.
- `TraceGraph.cfg`: three programs with at most three nested scopes, bytes below
  four. Each damaged form leaves one binding dangling or one length wrong. At most
  three containers differ from their defaults at once (`MaxCollapsed`), loops
  show up to `ChipCap = 2` chips, replication thresholds are off, one and two,
  and one source at a time is pinned to or from replication.
- `Primitives.cfg`: bytes, words, rounds and tables have their real sizes
  wherever the code fixes them: full SHA-256, Keccak with 24 rounds, ten double
  rounds, every key size of AES and Serpent. Message lengths lie under, on and
  over each edge. Scaled are the twister (five words of two bytes, `StateWords`,
  `TwistOffset`, `WordBytes`), RSA (numbers of one and two bytes, all exponents
  of a byte), polynomials (eight coefficients; ML-KEM keeps q = 3329 and rank 2,
  ML-DSA has q = 7681 and bounds scaled so that each check but that of ct0
  rejects now and then), Blowfish's digits of pi and the length fields (messages
  below 8192 bytes, encodings below 2^24). Rounds take two edits for DES and the
  transform, one elsewhere; an ARX double round is edited in one of its eight
  quarter rounds. The pane has two scenes (a block mode; fan-out with a long
  loop and a curated pin), two pointer paths, one layout entry at a time
  (`MaxEntries`) besides a second drag, one pointer, zoom 1. During a drag one
  other thing may happen (`MayHappen`), at the normal density, and not to nodes
  listed as `alike`: those that stand in their scope as another one does, which
  is dragged with everything. Pins are set at each density at 0 to 100 and 380
  to 410 pixels: what rounding does depends on the coordinate modulo 60 alone,
  and the comment speaks of 400. Documents have all, none or all but one of
  their optional fields, and at most four arrivals. Preferences have two specs,
  two sources and three writes; boxes are dropped at -20, 7 and 393 pixels, of
  which the last two are rounded on the way.
- No state constraint is used, and every bound is a conjunct of a guard or a
  constant's set of inputs.

### Fairness and stopping

Only `RunLoop` has liveness properties. `FairSpec` assumes weak fairness of
`TimerFires` and of `BootEnds`: the browser fires a due timer and settles a
decoding without anyone's help, and neither can be disabled by anything but
itself or a write that reschedules it. No fairness is assumed of any user
action, so nothing is promised to depend on a click. `AutoCatchesUp` has an
escape when the user switches auto mode off; `RestsUnlessKeyTooLong` holds
because the user's edits are finitely many in the model: it says that the loop
stops once the user does. The two counterexamples are of safety properties and need
no fairness.

Deadlock is checked where the page goes on for ever. `Selectors.cfg` stops at
its bound on handlers; `Blocks.cfg`, `Primitives.cfg` and `PinDrift.cfg` are
computations, which end.

## What is proved

Every theorem holds for all values of the constants that satisfy the named
assumptions of its module, hence for the real capacities and for any number of
edits, references, ids, rounds or blocks. The arguments:

- **TypeCorrect** (`EditHistoryProofs`): the type invariant, and
  `Len(undoStack) + Len(redoStack) <= MaxUndo`. The two belong together: `redo`
  pushes without the cap, so the undo stack's bound needs the joint one.
- **BoundaryRespected** (`EditHistoryProofs`): `Spec => []BoundaryRule` when no
  setting selects KMAC and neither a selector change nor a document arrives
  during a drag. `BoundaryRule` is not inductive: an open gesture holds a
  snapshot that will be pushed later. `BoundaryInv` adds that this snapshot was
  taken under the live selectors and that a gesture does not outlive its drag.
- **ToolbarUndoable** (`EditHistoryProofs`): `Spec => ToolbarOpsUndoable`, with no
  assumption on what acts during a drag. A toolbar operation records nothing if
  the last applied snapshot equals the new state, so one has to know that it
  never does: `FreshInv` says that every snapshot in the stacks, the gesture and
  `lastApplied` refers to objects made so far, and the operation makes a new one.
- **MovesCommit** (`EditHistoryProofs`): `Spec => OnlyMovesCommit` when no edit,
  shortcut or document writes the layout while a node is held; selectors may
  change, runs resync, and pointers get lost. `PressInv`: until the node moves,
  the gesture's snapshot has the live layout. Without the assumption it is false,
  see below.
- **TimelineImplemented** (`EditHistoryProofs`): `Spec => ImplementsTimeline` when
  no setting selects KMAC and nothing acts during a drag: each step of the two
  stacks, the live stores and the gesture is one of `UndoTimeline`'s or a stutter.
  `QuietInv` adds to `FreshInv` that a gesture is open exactly during a drag and
  that its snapshot has the live specs. The assumptions set aside the cases seen
  in the code below: a resync outside `withBoundaryReset`, and what arrives while a
  node is held.
- **RingLinked** (`RunLoopProofs`) for the snapshot store alone, and
  **LoopHistoryLinked** inside the loop, where `run()`, hiding and clearing
  interleave. `RingInv` strengthens the ring properties with the ring's shape,
  without the model's bound on ids, and with "an empty ring numbers from 1". That an
  empty delta hides only a mode or a length is about byte strings of any length: of
  two equally long ones `diffBytes` is empty exactly if they are equal.
- **Announced** (`RunLoopProofs`): `Spec => []StaleIsAnnounced` unless the
  checkbox is switched on. The lemma `RunOutcome` carries it: after `run()` the
  trace is current or an error is shown.
- **EmptyExplained** (`RunLoopProofs`): `Spec => []EmptyIsExplained`, with no
  assumption but that of the boot links: a decoding that fails raises the banner,
  and nothing lowers it without a run.
- **ManualSchedules** (`RunLoopProofs`): `Spec => ManualSchedulesNothing`,
  whichever way the checkbox is clicked: a step that leaves the page in manual
  mode schedules no run, and if it changes the settings it cancels the run that
  was scheduled before the switch (`ScheduledAfterRun`: a scheduled run is of a
  page that has run, so the effect is awake). That such a run may fire first is
  listed below.
- **ChangesPushed** (`RunLoopProofs`): `Spec => ChangesArePushed`: a new trace
  that the duplicate check tells from the one on screen is pushed whole. The
  invariant is `LatestIsShown`: the newest snapshot and the trace are the same
  run *as far as the check looks*, so the check compares with what is on screen;
  the lemmas say that pushing, hiding and clearing keep it. What the check does
  not look at is listed below.
- **FocusAgrees** (`TraceFocusProofs`): `Spec => []EditorAndScrubberAgree`, for
  every set of traces, inductive by itself; the lemmas say where a new trace, the
  clamp and the group boundary land. **FocusKept** and **PagesByGroup** are
  the two action properties, from that invariant.
- **ChainsKept** (`DuplicateRoundProofs`): `Spec => []RoundsChained` for any
  number of rounds and duplications, when the exit is the spec's `outputFrom`
  and the encryption spec is never reset alone. `ChainInv` adds that the
  decryption spec has at least the canonical rounds and never more than the
  encryption spec, so the mirror of a duplication is always a full round. The
  work is in `InsertedPlaces`, which says where every round of the new list
  comes from, and `RewiredPlaces` for the inverse chain.
- **KeysReadInOrder** and **MirrorKeepsInverse** (`DuplicateRoundProofs`), under
  the same two assumptions: `Spec => []KeysInOrder` and `Spec =>
  DuplicationKeepsInverse`. `Output` is recursive; `Recurrence` gives its value
  at each link of the chain, and `OutputIsComplete` and `PlacesOf` write it
  place by place: the first key, three operations for each full round, two for
  the last. Order of keys follows (`KeyPlace`), and so does `UndoneByMatrices`:
  two outputs are each other's reverse exactly if they are equally long and have
  mirrored matrices, which `MixInv` (only the last round is without a matrix)
  lets one compare. That property of the matrices is what a duplication and its
  mirror keep.
- **PinsFollow** (`DuplicateRoundProofs`), under the same assumptions:
  `Spec => PinsFollowRounds`. `RenamedAbove`: exactly the rounds above the source
  are renamed. `RenameMoves` follows the entries as they are written one by one,
  with `PinInv`: the names in a layout are distinct. Both recursions are climbed
  with `Climb`, induction along a list, which is proved from the library's
  theorem on subsets of a well-founded order since the prover does not
  instantiate its induction theorems.
- **OfferedResolve** (`SpecEditingProofs`): `Spec => []OfferedSourcesResolve`
  whatever the spec has become, with no assumption on the tree: every way a
  source gets on the list is a way its bytes get into the runtime's scope map.
  The lemma `SeedsAreInjected` relates the enumerator's seeds to the ports that
  the runtime injects, `OfferedIsSeen` the preceding siblings.
- **EditorTellsTheTruth** (`SpecEditingProofs`): `Spec => []EditorSeesTheSpec`, if
  the shipped spec is a tree wired as the shipped ones are (`ShippedAssumption`: the
  message is read at the top only, containers export no harvest) and no element is
  named `$input` (`NamesAssumption`). The inductive invariant `IInv` is that the
  live spec is `Good` (such a tree, its nodes as the types have them, no harvest
  under a name that the shipped spec does not use for one) and that every saved
  element is a tree of its own, since it may be dropped at any later time. The
  work is in what a graft, a removal and a fresh copy do to a tree; `GoodIsSeen`
  then compares the three walks on a good tree.
- **WiresResolveWhenMade** (`SpecEditingProofs`): `Spec => NewWiresResolve`. Each
  action of `IInv`'s proof also shows `KeepsWires`: a wire of a node that stays is
  an old one or resolves. The bind on the canvas checks the source against the
  spec of the click, not of the arming.
- **ElementsRunAnywhere** (`SpecEditingProofs`): `Spec => ElementsStandAlone`.
  Saving, dropping and what the drop leaves in place are the same move,
  `Embeds`: nodes go to another tree with all they had, their bodies in order
  and no scope split. A binding that resolves in its old place then resolves in
  the new one.
- **SelectorsFit** (`SelectorsProofs`): `Spec => []SelectorsFitSpec` for any offered
  algorithms, typed lengths and number of handlers, files and reloads. The
  property speaks of what is on screen; the inductive invariant `IInv` must also
  say what a later click will bring up. `Sound` describes the settings under the
  marks of what the user has done (the IV stays as wide as the *cipher* takes it
  while a hash is shown, untouched fields hold the defaults of the algorithm, a
  spec is built with the lengths of its own algorithm), `Kept` the message a flip
  back restores, `FileSound` each saved document, since it may be loaded at any
  later time. There is one lemma for each setter, then one for each handler.
- **InputsBack** (`SelectorsProofs`): `Spec => InputsComeBack`, from `FileSound` and
  `Kept`: loading a session rebuilds the inputs of a run from the document alone.
- **ScreenCaughtUp** (`SelectorsProofs`): `Spec => []ScreenCatchesUp`, with the
  checkbox clicked either way and the debounced run firing at any time. A run
  reads the algorithm, the mode of operation and the padding, and the effect
  watches none of them. `WatchedDecides` is the core: in two settings that the
  selectors describe (`Sound`, hence the whole of `IInv`), equal watched signals
  mean equal inputs of a run, because each of those selections is built into the
  spec. So a handler that the effect does not see has changed nothing that a run
  reads.
- **ModeCorrect** (`BlockModesProofs`), with its parts **DecryptionRecovers**,
  **RunsSucceed**, **LengthIsKept**, **CarriesRepeat** and
  **CountersNeverRepeat**: for every invertible block cipher, block size, mode,
  padding, IV and accepted message. Recovery is a statement about the end of the
  second run; the invariant `IInv` says of every point of both runs which blocks
  have been produced from which, and which value was carried into each. It
  splits into `Encrypting` and `Decrypting`; the lemmas below it show that each
  padding is undone on its own, and each mode's body block by block.
- **CountersNeverRepeat** (`BlockModesProofs`): `Spec => []CountersDiffer`, for
  every radix, block size and IV, if a message has fewer blocks than there are
  block values (`CounterAssumption`: the field takes 16 blocks, the narrowest
  block has 2^32 values). Counting blocks needs no arithmetic on them: the
  counter turns like an odometer, and a counter that came back would have
  visited a set that increment maps into itself; such a set is all of `Block`.
- **CiphersMirrored** (`BlockCiphersProofs`), with **DecryptionBacktracks** and
  **DecryptionRecovers**: for every word size, number of rounds, round function
  and round key. The invariant is a mirror relation between the node a
  decrypting run is at and the node of the encrypting run it undoes, up to an
  exchange of halves in the Feistel ciphers and the key mixing between rounds.
  The theorem is what `BlockModes` assumes of its cipher.

The attempt at SelectorsFit changed the model once. The invariant of documents
was false for longer behaviours than `MaxActs` lets TLC see: under a mark
"shadowed" (a KMAC key measured while another category is shown) the saved document
carries the hash's spec under the other algorithm's name; loaded as a generator,
its length of 512 bytes is cut to 256 in the field only, and the field no longer
says what the spec generates. The code does this (see below); the model's
documents now remember the mark, and the properties state that case away for
loaded documents as they did for live settings.

Only model-checked, and why:

- the liveness properties `AutoCatchesUp` and `RestsUnlessKeyTooLong`: the prover
  has no rule for fairness;
- the families of `Primitives`: concrete tables and numbers, which TLC evaluates
  and a prover would only repeat;
- the properties of TraceGraph: `GraphTransforms` and `GraphInspector` walk graphs
  with RECURSIVE operators, in whose reach the SMT prover is not available;
- the cases that the assumptions above set aside, such as duplications when the
  exit is an iterate's `bodyOutput`.

## Seen in the code, without a run

These follow from reading or were met while modelling; the two counterexamples
of the table are in `PROJECT.json`. A property that would fail for one of them
states the case away in its comment, or is run on constants that leave it out;
where giving a constant another value shows it, or a definition that no run
checks states the comment that does not hold, the item names it.

**History, runs, selectors**

- Ctrl+Z while a node is pressed replaces the layout map, so the release sees
  another reference, commits an entry for a press that never moved and clears
  the redo stack (`ui/stores/edit-history.ts:277`; the comment at 264 says such
  a press records nothing). `OnlyMovesCommit` fails with `MidDragInputs <-
  ShortcutsToo`.
- A document that arrives during a drag empties both stacks and leaves
  `gestureSnapshot` in place (`edit-history.ts:369`): the release then pushes a
  snapshot of the old document. `BoundaryRule` fails with
  `MidDragInputs <- ArrivalsToo`. The stroke and pin operations of `GraphView.tsx`
  (6680, 6906, 7255) do not cancel a stuck gesture, and are then coalesced away.
- Pressing Run with a KMAC key of a new length that was never blurred rebuilds
  the spec outside `withBoundaryReset` (`App.tsx:656`): undo then restores a spec
  for another length than the live one, which `edit-history.ts:380-383` rules out.
  `BoundaryRule` fails when `Selectors` and `KmacSelectors` are `KmacLengths`.
- `setAutoRerun(true)` clears the dirty flag and nothing reruns: the watching
  effect reads `autoRerun` untracked (`auto-rerun.ts:58`; its comment at 52-54
  expects the effect to catch up). `StaleIsAnnounced` fails with `Toggles = {"on"}`.
- Switching from auto to manual does not cancel a scheduled rerun (`App.tsx:1139`),
  which replaces the trace that manual mode is to preserve (comment at 1116-1119).
  `ManualKeepsTrace` of `RunLoop` states the comment and does not hold.
- A run that differs from the last only in IV, wiring or constants is dropped as
  identical, so an older trace stays the newest snapshot (`history.ts:93`; 90-92
  says the trace would be identical). `NewestIsShown` of `RunLoop` states the
  comment and does not hold.
- The input 01 made 0100 is a new snapshot with an empty delta:
  `isIdenticalToPrev` compares lengths, `diffBytes` reads missing bytes as zero
  (`history.ts:199`; `run-delta-format.ts:85` says that this should be
  impossible). `DeltasShowChanges` of `RunHistory` states the comment and does
  not hold.
- A KMAC key over the maximum makes each failing auto-rerun schedule the next
  (`App.tsx:655`; 1117-1119 says that one wasted call is the worst).
- Switching from auto to manual does not cancel a scheduled rerun (`App.tsx:1139`).
- A rerun in a later pass of a loop jumps to the first pass (`trace.ts:106`; 47-49
  promises the frame). PageUp lands on the *last* frame of the previous group;
  the comment at `keyboard.ts:55` says the first.
- Text left in the hidden key field makes the next hash fail: `run()` parses the
  field of an unkeyed hash too (`App.tsx:670`); `cipher.ts:1102-1104` says that the
  user can ignore it.
- `onMount` fires no run when the link does not decode (`App.tsx:939`): the page
  stays without a trace until the user acts, which the comment at 918 calls a bug.
- A typed KMAC key is measured for the spec although another category is shown:
  the commit on blur asks for the hash that is chosen, not for the active
  algorithm (comment at `App.tsx:1411`). A document saved then carries the hash's
  spec under the other algorithm's name, and a loaded generator shows a length
  that its spec does not have. A document without selections that loads
  under KMAC is replaced at the next key commit.
- Sessions of DES and Blowfish (8-byte IV) and of Speck (4) are saved but refused
  when loaded or shared (`core/document-schema.ts:602` asks for 16). Documents
  without a session lose mode of operation and IV width (`spec.ts:2129`).
- The forward-input records are keyed by algorithm so that one scheme's record
  never surfaces in another's field (`forward-input.ts`). A message typed for
  ML-DSA stays in the field when ML-KEM is selected, and the effect at
  `App.tsx:1594` then records it for ML-KEM.

**Editing a spec**

- The enumerator leaves out `chainOutput`, so in ML-DSA signing, whose split step
  reads the loop's harvest, the dropdown shows the current wire as unresolvable
  although it resolves (`port-sources.ts:47` says that every binding of every
  shipped spec is offered).
- A removed step's id is free again (`spec.ts:1923`): consumers it left dangling,
  and a port that is still armed on it, attach to the next step dropped under
  that id.
- Removing the node named by `outputFrom`, `chainInput` or `chainFeedback` makes
  the next run throw without a warning (`Unchecked`; `docs/gotchas.md:38` says of
  `outputFrom` that the walk never checks it). Deleting the unpad leaf
  leaves `outputFrom` on it (`spec-mutations.ts:1930`).
- A reset keeps the spec's id and so does not disarm a port (`GraphView.tsx:2787`);
  `NewWiresResolve` shows that the bind is still to a legal source.
- If only the encryption spec is reset after a duplication, duplicating the
  inverse's extra round mirrors onto the encryption spec's final round, whose
  clone nothing reads (`spec.ts:1782`); this is the assumption of the
  theorems on DuplicateRound.
- The pin of a round that a reset took away can overwrite a live pin on a rename
  (`layout.ts:940`; 922-928 says that this never happens). `LivePinsFollow` of
  `DuplicateRound` states the comment and does not hold; `PinsFollowRounds` leaves
  the case out. Undoing past a density change
  restores pins of the other density.
- CBC, CTR, CFB and OFB wire feedback and output to the last round by name, like
  ECB; the decryption side of CTR, CFB and OFB consists of forward rounds, for
  which the mirror finds no inverse round.
- Comments in `spec-mutations.ts` (66-87, 119-228) promise that untouched
  branches keep their reference; `map` rebuilds every container.

**Runtime, graph, inspector**

- An iterate inside an iterate would give its frames the inner block index alone
  (`core/runtime.ts:344`); no shipped spec nests them.
- An edge across a loop's boundary shows the one block that the scrubber is in
  (`edge-value-lookup.ts:809`), so it is left out of `EdgesShowWhatWasRead`.
- A history loop of no rounds leaves no frame, so its consumers' edge from it is
  not drawn (`graph.ts:711`).
- The header of `ciphers/sha-256.ts` (42-43) swaps the rotation amounts of both
  sums and names a leaf `final.fetch-H` that does not exist.
- A fully replicated `$input` counts as a source that can be coloured
  (`core/source-colors.ts:97-131`), although pills are not; the colours of the
  sources after it shift, and clicking one of its arrows finds no value
  (`edge-value-lookup.ts:439`). `GraphView.tsx:9652` says that a lookup reads four
  fields; it reads the two ports as well.
- `GraphView.tsx:5024` says that warnings never land on replicas; those of a
  source that is drawn only as replicas are then not shown.

**Pictures and canvas**

- A comment says that a rewired operation gives up the picture
  (`arx-round-shape.ts:189-195`). A quarter round that is made to read other words
  keeps it; its rails are then numbered by the word they go back to, or not at
  all. A Feistel round whose F reads the mixed half is drawn as reading
  the carried one; in Twofish's, g1 may read word 0 and shared g leaves.
- In the ARX picture the last layer of a staggered round ends 20 px above its
  target. These are left out of `PicturesHold`.
- The comparator that orders arriving arrows (`GraphView.tsx:963-979`) compares by
  x only if both have one, and is not transitive then.
- A replica that feeds a replica in another scope may be missing or covered; two
  replicas in one left gutter take one place (1703-1715); a lifted replica widens
  its group when dragged; relative drags are not clamped to the canvas; a pinned
  container in an iterate moves the siblings after it (1848); drop gutters ignore
  replicas; arrow sides come from the base layout.
- Vertical feedback arrows take their side from one rule and their dots from
  another (2535, 8979).
- Resetting a node that the curated layout pins does nothing (`clearNodePosition`,
  `layout.ts:318`).

**Preferences and documents**

- A layout saved at one density is not rescaled when loaded at another
  (`layout.ts:761`), against the doc of `view-density.ts`. Density and layout are
  two writes; if one fails, a reload combines them.
- No store listens for `storage`, so two tabs overwrite each other's maps.
- Stored thresholds equal to the default are kept at load, although a write drops
  them. The stored replication switch is read, but the pane starts with
  replication on whatever it says.
- The header of `source-strokes.ts` says that colours repeat after eight; they go
  on with hues. The comments at `GraphView.tsx:3669` (default 3) and 3768 (one
  key set for strokes and colours) are outdated.
- `narrationOverride.params` and the shape contract of a leaf do not survive a
  save; the types say so.

## Not modelled, and the plan

- *Narration* and the *panels* (parameter, S-box and constants editors, timeline,
  key panel): text and rendering; what they write is one edit, modelled where it
  arrives.
- *Tests and scripts*: read as documentation of intended behaviour.
- Of the runtime: the aux mode of iterate (418-473) and item arrays (943-1020),
  which no shipped spec uses.
- Of the pane: Feistel decorations (4277-4720), the remapping of warnings onto
  collapsed ancestors, hovering and dimming, which panels are open, the extent of
  the canvas, zoom; curated offsets and the pictures of rounds inside a laid-out
  pane; the drop anchors are `SpecEditing`'s slots.
- Of documents: key order and compression; of preferences: the medium itself and
  other tabs.
- The word, S-box and constants *editors'* validation of what is typed.

Next, as a proof: FrameIdsUnique and LookbackIsInnermost of Runtime, once its
walk is written without recursive operators. Then, as models: two tabs over one
localStorage; the remapping of warnings; the drawing of recognised rounds on the
pane.
