----------------------------- MODULE Preferences ------------------------------
(***************************************************************************)
(* How a reader likes the pages: the stores of ui/stores that keep a       *)
(* choice in localStorage, one key each, the density with the pinned boxes *)
(* that follow it, and the colours and strokes of arrows. A store reads    *)
(* its key when the page starts, is written through from then on, and goes *)
(* on when a write fails.                                                  *)
(*                                                                         *)
(* Some hold one choice; some one for each spec, left out when it is the   *)
(* default; the colours one for each source of a spec. The addresses of a  *)
(* choice are <<>>, <<spec>> and <<spec, source>>. Zooms are in hundredths *)
(* and thresholds in halves. A key holds <<>> or <<JSON value>>; text that *)
(* is no JSON reads like any other value of the wrong type.                *)
(***************************************************************************)
EXTENDS Documents, Integers, FiniteSets, SequencesExt, Bench

CONSTANTS
    Specs,              \* specs a reader opens
    ColoredSources,     \* sources of each
    Requests,           \* by store: what the toolbar asks for, with what should come of it
    StoredBefore,       \* by store: what the key may hold at first, with what should come of it
    PinnedHomes,        \* where boxes are dropped, in pixels
    MaxWrites,          \* bound: choices in a behaviour
    ColoredGraphs,      \* of each graph, its sources in order with the number of their arrows
    CodingThresholds,   \* what the two thresholds are set to
    Paints              \* colours picked by hand

NoNumber == -1000   \* stands for NaN and the infinities

-----------------------------------------------------------------------------
(* The stores                                                              *)

KnownChoices ==
    [viewMode |-> {"linear", "graph", "json"}, byteFormat |-> {"hex", "decimal", "ascii"}]
Switches == {"coloring", "autoRerun", "includeSingle", "replication"}
PerSpec == {"zoom", "colorThreshold", "strokeThreshold", "strokeStyling"}
Stores == DOMAIN KnownChoices \cup Switches \cup PerSpec \cup {"colorOverrides"}

Default ==
    [viewMode |-> "linear", byteFormat |-> "hex", coloring |-> TRUE, autoRerun |-> TRUE,
     includeSingle |-> FALSE, replication |-> FALSE, zoom |-> 100, colorThreshold |-> 2,
     strokeThreshold |-> 2, strokeStyling |-> TRUE, colorOverrides |-> ""]

Addresses(k) ==
    CASE k \in DOMAIN KnownChoices \cup Switches -> {<<>>}
      [] k \in PerSpec -> {<<s>> : s \in Specs}
      [] k = "colorOverrides" -> Specs \X ColoredSources

Between(low, high, n) == IF n < low THEN low ELSE IF n > high THEN high ELSE n

clampZoom(z) == IF z = NoNumber THEN Default.zoom ELSE Between(50, 200, z)
RoundedHalves(t) == 2 * ((t + 1) \div 2)   \* Math.round
clampColorThreshold(t) == IF t = NoNumber THEN Default.colorThreshold ELSE Between(0, 198, RoundedHalves(t))
clampStrokeThreshold(t) == IF t = NoNumber THEN Default.strokeThreshold ELSE Between(0, 198, RoundedHalves(t))

-----------------------------------------------------------------------------
(* loadInitial: one of a known set, a switch that is off or on unless the  *)
(* text says otherwise, or an object with what is well formed in it        *)

LoadChoice(k, raw) ==
    IF raw # <<>> /\ raw[1][1] = "string" /\ raw[1][2] \in KnownChoices[k] THEN raw[1][2] ELSE Default[k]

LoadColoring(raw) == raw # <<Text("false")>>
LoadAutoRerun(raw) == raw # <<Text("false")>>
LoadIncludeSingle(raw) == raw = <<Text("true")>>
LoadReplication(raw) == raw = <<Text("true")>>

StoredEntries(raw) == IF raw = <<>> \/ raw[1][1] # "object" THEN <<>> ELSE raw[1][2]
OfType(f, type) == Restrict(f, {s \in DOMAIN f : f[s][1] = type})

\* Only the zooms leave a default out that they find.
LoadZooms(raw) ==
    LET f == OfType(StoredEntries(raw), "number")
        zooms == {s \in DOMAIN f : clampZoom(f[s][2]) # Default.zoom}
    IN [s \in zooms |-> clampZoom(f[s][2])]

LoadColorThresholds(raw) ==
    LET f == OfType(StoredEntries(raw), "number") IN [s \in DOMAIN f |-> clampColorThreshold(f[s][2])]
LoadStrokeThresholds(raw) ==
    LET f == OfType(StoredEntries(raw), "number") IN [s \in DOMAIN f |-> clampStrokeThreshold(f[s][2])]
LoadEnabledMap(raw) ==
    LET f == OfType(StoredEntries(raw), "boolean") IN [s \in DOMAIN f |-> f[s][2]]

LoadOverrides(raw) ==
    LET f == OfType(StoredEntries(raw), "object")
        colors(s) == OfType(f[s][2], "string")
    IN [s \in {t \in DOMAIN f : colors(t) # <<>>} |-> [c \in DOMAIN colors(s) |-> colors(s)[c][2]]]

LoadInitial(k, raw) ==
    CASE k \in DOMAIN KnownChoices -> LoadChoice(k, raw)
      [] k = "coloring" -> LoadColoring(raw)
      [] k = "autoRerun" -> LoadAutoRerun(raw)
      [] k = "includeSingle" -> LoadIncludeSingle(raw)
      [] k = "replication" -> LoadReplication(raw)
      [] k = "zoom" -> LoadZooms(raw)
      [] k = "colorThreshold" -> LoadColorThresholds(raw)
      [] k = "strokeThreshold" -> LoadStrokeThresholds(raw)
      [] k = "strokeStyling" -> LoadEnabledMap(raw)
      [] k = "colorOverrides" -> LoadOverrides(raw)

\* JSON.stringify of what is kept.
Stringified(k, m) ==
    CASE k \in DOMAIN KnownChoices -> <<Text(m)>>
      [] k \in Switches -> <<Text(IF m THEN "true" ELSE "false")>>
      [] k = "strokeStyling" -> <<Obj([s \in DOMAIN m |-> Bool(m[s])])>>
      [] k \in PerSpec \ {"strokeStyling"} -> <<Obj([s \in DOMAIN m |-> Num(m[s])])>>
      [] k = "colorOverrides" -> <<Obj([s \in DOMAIN m |-> Obj([c \in DOMAIN m[s] |-> Text(m[s][c])])])>>

-----------------------------------------------------------------------------
(* Reading and setting one choice                                          *)

Has(f, x, none) == IF x \in DOMAIN f THEN f[x] ELSE none

\* Replication is on until it is switched in this session, whatever was kept (GraphView.tsx).
ShownAt(j, a) ==
    LET k == j.pref
    IN CASE k = "replication" -> IF j.touched THEN j.mem ELSE TRUE
         [] k \in (DOMAIN KnownChoices \cup Switches) \ {"replication"} -> j.mem
         [] k \in PerSpec -> Has(j.mem, a[1], Default[k])
         [] k = "colorOverrides" -> Has(Has(j.mem, a[1], <<>>), a[2], "")

\* Mutant of ShownIsWhatWasAsked: a choice that is the default is taken for no choice.
EntryKept(f, x, v, default) == IF v = default THEN f ELSE (x :> v) @@ f

WithEntry(f, x, v, default) ==
    IF v = default THEN Restrict(f, DOMAIN f \ {x}) ELSE (x :> v) @@ f

\* The setters: what becomes of what is kept.
SetViewZoom(m, s, z) == WithEntry(m, s, clampZoom(z), Default.zoom)
SetColorThreshold(m, s, t) == WithEntry(m, s, clampColorThreshold(t), Default.colorThreshold)
SetStrokeThreshold(m, s, t) == WithEntry(m, s, clampStrokeThreshold(t), Default.strokeThreshold)
SetStrokeStyling(m, s, on) == WithEntry(m, s, on, Default.strokeStyling)
SetColorOverride(m, s, source, color) ==
    WithEntry(m, s, WithEntry(Has(m, s, <<>>), source, color, Default.colorOverrides), <<>>)

Updated(k, m, a, v) ==
    CASE k \in DOMAIN KnownChoices \cup Switches -> v
      [] k = "zoom" -> SetViewZoom(m, a[1], v)
      [] k = "colorThreshold" -> SetColorThreshold(m, a[1], v)
      [] k = "strokeThreshold" -> SetStrokeThreshold(m, a[1], v)
      [] k = "strokeStyling" -> SetStrokeStyling(m, a[1], v)
      [] k = "colorOverrides" -> SetColorOverride(m, a[1], a[2], v)

-----------------------------------------------------------------------------
(* A reader's session with one store.  want is what was last asked for at  *)
(* every address, and kept what the key stood for when it was last written *)

ViewJob(k, before) ==
    [kind |-> "view", pref |-> k, mem |-> LoadInitial(k, before.raw), store |-> before.raw, touched |-> FALSE,
     want |-> before.means, kept |-> before.means, writes |-> 0]

Put(m, want, written) ==
    [job EXCEPT !.mem = m, !.want = want, !.touched = TRUE, !.writes = @ + 1,
                !.store = IF written THEN Stringified(job.pref, m) ELSE @,
                !.kept = IF written /\ job.pref # "replication" THEN want ELSE @]

Choosing == job.kind = "view" /\ job.writes < MaxWrites

Choose(a, r, written) ==
    /\ Choosing
    /\ job' = Put(Updated(job.pref, job.mem, a, r.ask), [job.want EXCEPT ![a] = r.get], written)

\* stepViewZoom, the buttons.
StepZoom(a, step, written) ==
    /\ Choosing /\ job.pref = "zoom"
    /\ job' = Put(SetViewZoom(job.mem, a[1], ShownAt(job, a) + step),
                  [job.want EXCEPT ![a] = Between(50, 200, @ + step)], written)

ClearOverrides(s, written) ==
    /\ Choosing /\ job.pref = "colorOverrides" /\ s \in DOMAIN job.mem
    /\ job' = Put(Restrict(job.mem, DOMAIN job.mem \ {s}),
                  [a \in DOMAIN job.want |-> IF a[1] = s THEN "" ELSE job.want[a]], written)

\* A page that starts anew, where the storage can be read or not.
Reload(readable) ==
    /\ Choosing
    /\ LET raw == IF readable THEN job.store ELSE <<>>
           shown == IF job.pref = "replication" THEN TRUE ELSE Default[job.pref]
       IN job' = [job EXCEPT !.mem = LoadInitial(job.pref, raw), !.touched = FALSE, !.writes = @ + 1,
                             !.want = IF readable THEN job.kept ELSE [a \in DOMAIN @ |-> shown]]

-----------------------------------------------------------------------------
(* The density and the pinned boxes: two keys, each written on its own.    *)
(* homes are where boxes were dropped and the density it was done at; off, *)
(* those that came at a density that is not the page's; keptAt, the        *)
(* density when they were written                                          *)

Scale == [compact |-> 3, normal |-> 4, spacious |-> 5]   \* in quarters
RescaledPin(n, old, new) == ((2 * n * Scale[new]) + Scale[old]) \div (2 * Scale[old])

ScaleJob ==
    LET none == [pins |-> <<>>, homes |-> <<>>, off |-> {}]
    IN [kind |-> "scale", density |-> "normal", now |-> none, keptDensity |-> "normal", kept |-> none,
        keptAt |-> "normal", writes |-> 0]

Scaling == job.kind = "scale" /\ job.writes < MaxWrites

WithPins(j, now, written) ==
    [j EXCEPT !.now = now, !.writes = @ + 1, !.kept = IF written THEN now ELSE @,
              !.keptAt = IF written THEN j.density ELSE @]

Pinned(s, at, d) ==
    [pins |-> (s :> at) @@ job.now.pins, homes |-> (s :> [at |-> at, density |-> d]) @@ job.now.homes,
     off |-> IF d = job.density THEN job.now.off \ {s} ELSE job.now.off \cup {s}]

DropBox(s, at, written) == Scaling /\ job' = WithPins(job, Pinned(s, at, job.density), written)

\* setLayoutForSpec: the layout of a document, which was saved at some density.
TakeLayout(s, at, saved, written) ==
    Scaling /\ saved # job.density /\ job' = WithPins(job, Pinned(s, at, saved), written)

\* setViewDensity: rescaleAllPositions, then the density.
SwitchDensity(d, pinsWritten, densityWritten) ==
    /\ Scaling
    /\ LET flipped == [job EXCEPT !.density = d, !.keptDensity = IF densityWritten THEN d ELSE @]
           moved == [job.now EXCEPT !.pins = [s \in DOMAIN @ |-> RescaledPin(@[s], job.density, d)]]
       IN job' = WithPins(flipped, moved, pinsWritten /\ moved.pins # <<>> /\ d # job.density)

Restart ==
    /\ Scaling
    /\ job' = [job EXCEPT !.density = job.keptDensity, !.writes = @ + 1,
                 !.now = IF job.keptAt = job.keptDensity THEN job.kept
                         ELSE [job.kept EXCEPT !.off = DOMAIN job.kept.pins]]

ViewNext ==
    \/ \E written \in BOOLEAN :
         \/ job.kind = "view" /\ \E a \in DOMAIN job.want : \E r \in Requests[job.pref] : Choose(a, r, written)
         \/ job.kind = "view" /\ \E a \in DOMAIN job.want, step \in {-10, 10} : StepZoom(a, step, written)
         \/ \E s \in Specs : ClearOverrides(s, written)
         \/ \E s \in Specs, at \in PinnedHomes : DropBox(s, at, written)
         \/ \E s \in Specs, at \in PinnedHomes, saved \in DOMAIN Scale : TakeLayout(s, at, saved, written)
         \/ \E d \in DOMAIN Scale, densityWritten \in BOOLEAN : SwitchDensity(d, written, densityWritten)
    \/ \E readable \in BOOLEAN : Reload(readable)
    \/ Restart

-----------------------------------------------------------------------------
(* layout.ts: what loadInitial takes for a layout                          *)

ArrayFields == {"collapsedGroups", "expandedGroups", "expandedLabels"}

IsLayoutSpec(v) ==
    LET has(f, types) == f \in Fields(v) /\ v[2][f][1] \in types
        may(f, type) == f \in Fields(v) => has(f, {type})
    IN /\ v[1] = "object" /\ has("positions", {"object", "array"}) /\ has("collapsedGroups", {"array"})
       /\ has("flowDirection", {"string"}) /\ v[2].flowDirection[2] = "ltr"
       /\ \A f \in ArrayFields : may(f, "array")
       /\ \A f \in {"replicationModes", "relativePositions", "strokeStyles"} : may(f, "object")

-----------------------------------------------------------------------------
(* Properties                                                              *)

\* The page shows what was last asked for, of the spec and the source it was asked for,
\* within bounds; and after it starts anew, with writes that failed and keys an older
\* version wrote, what stood when the key was last written, or the defaults.
ShownIsWhatWasAsked ==
    job.kind = "view" => \A a \in DOMAIN job.want : ShownAt(job, a) = job.want[a]

\* Through flips of the density and new starts, every pinned box is within two pixels of
\* where the reader dropped it, at the scale of the density: except the boxes of a document
\* saved at another one, and those of a start after one of the two keys was not written.
\* Each flip rounds again; how far many of them take a box is a property of Canvas.
PinsFollowDensity ==
    job.kind = "scale" =>
      \A s \in DOMAIN job.now.pins \ job.now.off :
        LET home == job.now.homes[s]
            moved == (job.now.pins[s] * Scale[home.density]) - (home.at * Scale[job.density])
            near == 2 * Scale[home.density]
        IN -near <= moved /\ moved <= near

\* What a document may bring as a layout is a layout to the page that starts anew.
LayoutsComeBack ==
    job.kind = "document" /\ job.read /\ job.result # <<>> =>
      LET doc == job.result[1][2] IN "layout" \in DOMAIN doc => IsLayoutSpec(doc.layout)

-----------------------------------------------------------------------------
(***************************************************************************)
(* core/source-colors.ts and core/source-strokes.ts: the colour and the    *)
(* stroke that tell the arrows of one source from those of the others.     *)
(* Sources are numbered in the order of their names. A colour is <<red,    *)
(* green, blue>>; a stroke its pattern, weight and phase. The hues are     *)
(* taken 137.508 degrees apart, and are exact: in units of 0.012 degrees,  *)
(* 30000 to the circle.                                                    *)
(***************************************************************************)

SOURCE_COLOR_PALETTE ==
    << <<230, 159, 0>>, <<124, 10, 2>>, <<0, 158, 115>>, <<240, 228, 66>>,
       <<0, 114, 178>>, <<204, 121, 167>>, <<153, 153, 153>>, <<204, 0, 204>> >>

Hue(index) == (index * 11459) % 30000

\* hslToHex at saturation 65 and luminance 55.  In each sixth of the circle one channel
\* is high, one low, and the third rises or falls.
HighChannel == 215
LowChannel == 66
HslToHex(hue) ==
    LET f == hue % 5000
        between(n) == (5967 * n + 13232500) \div 200000
        up == between(f)
        down == between(5000 - f)
    IN << <<HighChannel, up, LowChannel>>, <<down, HighChannel, LowChannel>>,
          <<LowChannel, HighChannel, up>>, <<LowChannel, down, HighChannel>>,
          <<up, LowChannel, HighChannel>>, <<HighChannel, LowChannel, down>> >>[(hue \div 5000) + 1]

ColorForSourceIndex(index) ==
    IF index < 8 THEN SOURCE_COLOR_PALETTE[index + 1] ELSE HslToHex(Hue(index))

BASE_STROKE_PATTERNS ==
    <<"solid", "round-dot", "short-dash", "long-dash", "dash-dot", "sparse-dot", "dash-dot-dot", "long-short">>

\* buildCatalogue: plain, heavy, and shifted by half a period, which a solid line has not.
Catalogue ==
    LET tier(weight, phase) ==
          [i \in 1..8 |-> [pattern |-> BASE_STROKE_PATTERNS[i], weight |-> weight,
                           phase |-> phase /\ BASE_STROKE_PATTERNS[i] # "solid"]]
    IN tier("plain", FALSE) \o tier("heavy", FALSE) \o tier("plain", TRUE)

StrokeForSourceIndex(index) == Catalogue[(index % 24) + 1]

\* The sources with at least so many arrows, in order, and what each is given; the two
\* channels have thresholds of their own.
Assigned(fanouts, threshold, For(_)) ==
    LET taken == SelectSeq(fanouts, LAMBDA s : s.count >= threshold)
    IN [i \in DOMAIN taken |-> [source |-> taken[i].source, look |-> For(i - 1)]]

AssignSourceColors(fanouts, threshold) == Assigned(fanouts, threshold, ColorForSourceIndex)
AssignSourceStrokes(fanouts, threshold) == Assigned(fanouts, threshold, StrokeForSourceIndex)

\* colorForEdge and strokeForEdge; <<>> leaves the arrow as its kind is drawn.
LookOf(assigned, overrides, source) ==
    IF source \in DOMAIN overrides THEN <<overrides[source]>>
    ELSE IF \E i \in DOMAIN assigned : assigned[i].source = source
         THEN <<assigned[CHOOSE i \in DOMAIN assigned : assigned[i].source = source].look>>
         ELSE <<>>

-----------------------------------------------------------------------------
(* A graph whose arrows are told apart, and the toolbar                    *)

SourcesJob(g) == [kind |-> "sources", fanouts |-> g, color |-> 1, stroke |-> 1, painted |-> <<>>]

SetThresholds(c, s) == job.kind = "sources" /\ job' = [job EXCEPT !.color = c, !.stroke = s]

\* The panel lists the sources that have a colour, unless it is asked for all of them.
Paint(i, paint) ==
    /\ job.kind = "sources" /\ job.painted = <<>>
    /\ job' = [job EXCEPT !.painted = job.fanouts[i].source :> paint]

SourcesNext ==
    \/ \E c, s \in CodingThresholds : SetThresholds(c, s)
    \/ job.kind = "sources" /\ \E i \in {1, Len(job.fanouts)}, paint \in Paints : Paint(i, paint)

-----------------------------------------------------------------------------
(* Properties                                                              *)

\* However many sources there are, no two look alike that have both a colour and a
\* stroke of their own by one threshold: where the strokes start over, and where two
\* hues give one colour, the other channel differs.
SourcesLookApart ==
    job.kind = "sources" /\ job.color = job.stroke =>
      LET colors == AssignSourceColors(job.fanouts, job.color)
          strokes == AssignSourceStrokes(job.fanouts, job.stroke)
          own == {colors[i].source : i \in DOMAIN colors} \ DOMAIN job.painted
          look(x) == <<LookOf(colors, job.painted, x), LookOf(strokes, <<>>, x)>>
      IN Cardinality({look(x) : x \in own}) = Cardinality(own)

=============================================================================
