---------------------------- MODULE SpecEditing ----------------------------
(***************************************************************************)
(* Editing the wiring of a spec: core/port-sources.ts (which sources an    *)
(* input port is offered), core/spec-shapes.ts (which bindings are warned  *)
(* about), core/runtime.ts (which bindings throw), the mutations of        *)
(* core/spec-mutations.ts and the stores spec.ts, composites.ts and        *)
(* wiring.ts that call them.                                               *)
(*                                                                         *)
(* Three walks over a spec decide the same question, "what can this port   *)
(* read?": the runtime when it runs, the validator before, the enumerator  *)
(* when the user opens a dropdown or clicks a port on the canvas.          *)
(*                                                                         *)
(* A spec is kept flat: the body of every scope, a record per node and the *)
(* set of containers around each node (the runtime's `path`).  Bytes are   *)
(* left out: a binding resolves or it does not.  An id is the sequence of  *)
(* its dotted parts, each a name with the number that made it unique.      *)
(***************************************************************************)
EXTENDS Integers, FiniteSets, SequencesExt

CONSTANTS
  Shipped,     \* the canonical spec, which resetSpec restores
  Palette,     \* the leaf types of the palette: [base, ins, needs, outs]
  Names,       \* the names given to saved elements, as slugs
  MaxNumber,   \* bound on the number in a generated id
  MaxEdits,    \* bound on the edits and saves of a behaviour (resets are not counted)
  MaxSaved     \* bound on the elements saved at one time

VARIABLES
  spec,        \* the live spec of the mode on screen
  library,     \* composites: templates captured from groups
  armed,       \* the input port armed on the canvas
  edits

vars == <<spec, library, armed, edits>>

Top == <<>>                                 \* the top scope, no node's id
Port(x, p) == [node |-> x, port |-> p]
InputSource == Port(<< <<"$input", 0>> >>, "out")
NotArmed == <<Top, "none">>

\* f where it is defined and g elsewhere: an object with the entries of another
\* written over its own.
Over(f, g) == [x \in DOMAIN f \cup DOMAIN g |-> IF x \in DOMAIN f THEN f[x] ELSE g[x]]
Only(x, v) == [y \in {x} |-> v]

-----------------------------------------------------------------------------
(* The tree                                                                *)

Ids(s) == DOMAIN s.node
Scopes(s) == DOMAIN s.body
Leaves(s) == {x \in Ids(s) : s.node[x].kind = "step"}
Home(s, x) == CHOOSE h \in Scopes(s) : Contains(s.body[h], x)
Enclosing(s, h) == IF h = Top THEN {} ELSE s.inside[h] \cup {h}
Below(s, x) == {y \in Ids(s) : x \in s.inside[y]}

\* The siblings that precede x in its scope.
Before(s, x) ==
  LET b == s.body[Home(s, x)]
  IN {b[i] : i \in {j \in DOMAIN b : \A k \in 1..j : b[k] # x}}

Seeded(n) == n.kind \in {"group", "iterate"} /\ "seedInput" \in DOMAIN n.binds

\* Bindings that are resolved in the container's body; the others, and a
\* leaf's, are resolved in the scope that holds the node.
BodyFields == {"bodyOutput", "chainFeedback", "stopWhen"}
OfBody(n, f) == n.kind # "step" /\ f \in BodyFields

-----------------------------------------------------------------------------
(* Specs that are well made                                                *)

IdSet == Seq(STRING \X Nat)

\* Every node publishes something, only an iterate harvests, and what a group
\* reads from outside is its seed (core/types.ts).
IsNode(n) ==
  /\ DOMAIN n = {"kind", "ins", "needs", "outs", "binds", "harvest"}
  /\ n.outs \in Seq(STRING) \ {<<>>}
  /\ n.binds = [f \in DOMAIN n.binds |-> Port(n.binds[f].node, n.binds[f].port)]
  /\ n.kind # "iterate" => n.harvest = {}
  /\ n.kind # "step" => n.needs = {}
  /\ n.kind = "group" => DOMAIN n.binds \subseteq {"seedInput", "bodyOutput"}

\* A scope for the top and for every container, every node once in one of
\* them, and `inside` the containers on the way to it.
IsTree(s) ==
  /\ Ids(s) \subseteq IdSet \ {Top, InputSource.node}
  /\ Scopes(s) = {Top} \cup (Ids(s) \ Leaves(s)) /\ DOMAIN s.inside = Ids(s)
  /\ \A h \in Scopes(s) : s.body[h] \in Seq(Ids(s))
  /\ \A x \in Ids(s) : \E h \in Scopes(s) : x \in ToSet(s.body[h])
  /\ \A g, h \in Scopes(s) : \A i \in DOMAIN s.body[g], j \in DOMAIN s.body[h] :
       s.body[g][i] = s.body[h][j] => g = h /\ i = j
  /\ \A h \in Scopes(s) : \A x \in ToSet(s.body[h]) : s.inside[x] = Enclosing(s, h)
  /\ \A x \in Ids(s) : /\ s.inside[x] \subseteq Scopes(s) \ {Top, x}
                       /\ \A y \in s.inside[x] : s.inside[y] \subseteq s.inside[x]

-----------------------------------------------------------------------------
(* What the runtime resolves                                               *)

\* Ports a node publishes once it has run: a leaf its outputs, a container its
\* outputPorts, an iterate its harvested chain besides.
Published(n) == ToSet(n.outs) \cup n.harvest

\* Ports present when the walk of a scope starts.
Injected(s, h) ==
  IF h = Top THEN {InputSource}
  ELSE IF ~Seeded(s.node[h]) THEN {}
  ELSE {Port(h, p) : p \in {"in"} \cup {"chain" : f \in {"chainInput"} \cap DOMAIN s.node[h].binds}}

Outputs(s, X) == UNION {{Port(x, p) : p \in Published(s.node[x])} : x \in X}
SeenBy(s, x) == Injected(s, Home(s, x)) \cup Outputs(s, Before(s, x))
AtExit(s, h) == Injected(s, h) \cup Outputs(s, ToSet(s.body[h]))

Resolves(s, x, f) ==
  s.node[x].binds[f] \in IF OfBody(s.node[x], f) THEN AtExit(s, x) ELSE SeenBy(s, x)

\* A port-native leaf needs all its ports wired; a lifted one (with `meta`) reads
\* what is unwired from aux or the state.
Unwired(s, x) == s.node[x].needs \ DOMAIN s.node[x].binds

\* The bindings at which a run throws, each as <<node, port or field>>.
Throws(s) ==
  {w \in UNION {{x} \X (DOMAIN s.node[x].binds \cup s.node[x].needs) : x \in Ids(s)} :
     w[2] \in Unwired(s, w[1]) \/ ~Resolves(s, w[1], w[2])}
  \cup {<<Top, "outputFrom">> : e \in {s.exit} \ AtExit(s, Top)}

Runs(s) == Throws(s) = {}

-----------------------------------------------------------------------------
(* What the validator warns about before a run                             *)

\* Bindings the validator never looks at.
Unchecked == {"chainInput", "chainFeedback", "outputFrom"}

\* `recordContainerOutputs` counts the harvest, `collectDirectChildOutputs`,
\* which serves bodyOutput and stopWhen, does not.
ScopeOutputs(s, x) ==
  UNION {{Port(y, p) : p \in ToSet(s.node[y].outs) \cup s.node[y].harvest} : y \in Before(s, x)}
DirectChildOutputs(s, x) ==
  UNION {{Port(y, p) : p \in ToSet(s.node[y].outs)} : y \in ToSet(s.body[x])}

SeedScope(s, h) ==
  IF h = Top \/ ~Seeded(s.node[h]) THEN {}
  ELSE IF "chainInput" \in DOMAIN s.node[h].binds THEN {Port(h, "in"), Port(h, "chain")}
  ELSE {Port(h, "in")}

\* $input is accepted in every scope, a container's own output in none.
Accepted(s, x, f) ==
  {InputSource} \cup
  IF OfBody(s.node[x], f) THEN DirectChildOutputs(s, x)
  ELSE SeedScope(s, Home(s, x)) \cup ScopeOutputs(s, x)

Warned(s) ==
  {w \in UNION {{x} \X (DOMAIN s.node[x].binds \cup s.node[x].needs) : x \in Ids(s)} :
     /\ w[2] \notin Unchecked
     /\ w[2] \in Unwired(s, w[1]) \/ s.node[w[1]].binds[w[2]] \notin Accepted(s, w[1], w[2])}

\* What the shipped specs have, which the validator finds nothing to say of: the
\* message is read at the top only, and a container's results are read from what
\* its children publish, by names that no loop injects or harvests under.
Hidden == {"in", "chain"} \cup UNION {Shipped.node[x].harvest : x \in Ids(Shipped)}
IsWired(s) ==
  \A x \in Ids(s) : \A f \in DOMAIN s.node[x].binds \ Unchecked :
    /\ s.node[x].binds[f] = InputSource => s.inside[x] = {} /\ ~OfBody(s.node[x], f)
    /\ OfBody(s.node[x], f) => s.node[x].binds[f].port \notin Hidden

ASSUME ShippedAssumption ==
  /\ IsTree(Shipped) /\ IsWired(Shipped) /\ \A x \in Ids(Shipped) : IsNode(Shipped.node[x])
  /\ DOMAIN Shipped = {"body", "node", "inside", "exit"}
ASSUME NamesAssumption ==
  /\ Names \subseteq STRING \ {"$input"}
  /\ \A t \in Palette : t.base \in STRING /\ t.outs \in Seq(STRING) \ {<<>>}
ASSUME BoundsAssumption == MaxNumber \in Nat /\ MaxEdits \in Nat

-----------------------------------------------------------------------------
(* What the enumerator offers                                              *)

\* Mutant of BodySeedScope: the ports injected at the head of a body are forgotten.
BodySeedScopeEmpty(s, h) == {}

BodySeedScope(s, h) ==
  IF h = Top \/ ~Seeded(s.node[h]) THEN {}
  ELSE {Port(h, "in")} \cup
       (IF "chainInput" \in DOMAIN s.node[h].binds THEN {Port(h, "chain")} ELSE {})

\* Mutant of LegalSources: as lenient about $input as the validator.
LegalSourcesInput(s, x) ==
  IF x \notin Leaves(s) THEN {}
  ELSE {InputSource}
       \cup BodySeedScope(s, Home(s, x))
       \cup UNION {{Port(y, p) : p \in ToSet(s.node[y].outs)} : y \in Before(s, x)}

\* Mutant of LegalSources: following siblings are offered too.
LegalSourcesAnySibling(s, x) ==
  IF x \notin Leaves(s) THEN {}
  ELSE {InputSource : h \in {Home(s, x)} \cap {Top}}
       \cup BodySeedScope(s, Home(s, x))
       \cup UNION {{Port(y, p) : p \in ToSet(s.node[y].outs)} :
                    y \in ToSet(s.body[Home(s, x)]) \ {x}}

\* The sources offered for any input port of x; none when x is no leaf.
LegalSources(s, x) ==
  IF x \notin Leaves(s) THEN {}
  ELSE {InputSource : h \in {Home(s, x)} \cap {Top}}
       \cup BodySeedScope(s, Home(s, x))
       \cup UNION {{Port(y, p) : p \in ToSet(s.node[y].outs)} : y \in Before(s, x)}

-----------------------------------------------------------------------------
(* Mutations                                                               *)

\* The slots a drop can name: before or after any node of a container, the
\* start of a container, after a top-level leaf and the end of the spec.
Slots(s) ==
  {w \in UNION {{h} \X (1..(Len(s.body[h]) + 1)) : h \in Scopes(s)} :
     w[1] = Top => \/ w[2] = Len(s.body[Top]) + 1
                   \/ w[2] > 1 /\ s.body[Top][w[2]-1] \in Leaves(s)}

\* A subtree t placed as the i-th child of h.
Grafted(s, h, i, t) ==
  LET within == [x \in DOMAIN t.inside |-> t.inside[x] \cup Enclosing(s, h)]
  IN [s EXCEPT !.body = Over(t.body, [s.body EXCEPT ![h] = InsertAt(s.body[h], i, t.root)]),
               !.node = Over(t.node, s.node),
               !.inside = Over(within, s.inside)]

\* x and everything in it taken out.
Removed(s, x) ==
  LET rest == Ids(s) \ ({x} \cup Below(s, x))
      h == Home(s, x)
      i == CHOOSE j \in DOMAIN s.body[h] : s.body[h][j] = x
      body == [s.body EXCEPT ![h] = RemoveAt(s.body[h], i)]
  IN [s EXCEPT !.body = Restrict(body, Scopes(s) \cap ({Top} \cup rest)),
               !.node = Restrict(s.node, rest),
               !.inside = Restrict(s.inside, rest)]

Bound(s, x, p, b) == [s EXCEPT !.node[x].binds = Over(Only(p, b), @)]
Cleared(s, x, p) == [s EXCEPT !.node[x].binds = Restrict(@, DOMAIN @ \ {p})]

Leaf(t) ==
  [kind |-> "step", ins |-> t.ins, needs |-> t.needs, outs |-> t.outs, binds |-> <<>>, harvest |-> {}]

\* n is the first of the numbers not taken for this name: `<name>-<n>`.
FirstFree(s, name, n, numbers) ==
  /\ << <<name, n>> >> \notin Ids(s)
  /\ \A k \in numbers : k < n => << <<name, k>> >> \in Ids(s)

-----------------------------------------------------------------------------
(* Composites                                                              *)

\* The group g as a template: its subtree, without the seed.
Template(s, g, name) ==
  LET all == {g} \cup Below(s, g)
  IN [name |-> name, root |-> g,
      body |-> Restrict(s.body, all \cap Scopes(s)),
      node |-> [Restrict(s.node, all) EXCEPT ![g].binds = Restrict(@, DOMAIN @ \ {"seedInput"})],
      inside |-> [x \in all |-> s.inside[x] \cap all]]

\* The new id of each node of t: the root is numbered, the others keep what
\* follows the old root's id, or their whole id if it does not begin with it.
FreshIds(t, n) ==
  LET root == << <<t.name, n>> >>
  IN [x \in DOMAIN t.node |->
        IF IsPrefix(t.root, x) THEN root \o SubSeq(x, Len(t.root) + 1, Len(x)) ELSE root \o x]

\* Mutant of Clone: the root's new id is not in the rename map.
CloneOldRoot(t, r) ==
  LET old == AntiFunction(r)
      remap(b) == IF b.node \in DOMAIN r \ {t.root} THEN Port(r[b.node], b.port) ELSE b
  IN [root |-> r[t.root],
      body |-> [y \in {r[c] : c \in DOMAIN t.body} |->
                  [i \in DOMAIN t.body[old[y]] |-> r[t.body[old[y]][i]]]],
      node |-> [y \in DOMAIN old |->
                  [t.node[old[y]] EXCEPT !.binds = [f \in DOMAIN @ |-> remap(@[f])]]],
      inside |-> [y \in DOMAIN old |-> {r[c] : c \in t.inside[old[y]]}]]

\* The template under the ids r; bindings to a node of the template follow it.
Clone(t, r) ==
  LET old == AntiFunction(r)
      remap(b) == IF b.node \in DOMAIN r THEN Port(r[b.node], b.port) ELSE b
  IN [root |-> r[t.root],
      body |-> [y \in {r[c] : c \in DOMAIN t.body} |->
                  [i \in DOMAIN t.body[old[y]] |-> r[t.body[old[y]][i]]]],
      node |-> [y \in DOMAIN old |->
                  [t.node[old[y]] EXCEPT !.binds = [f \in DOMAIN @ |-> remap(@[f])]]],
      inside |-> [y \in DOMAIN old |-> {r[c] : c \in t.inside[old[y]]}]]

\* The seed of a copy that lands in slot <<h, i>>, if it has a sensible one:
\* the first output of the node before it, or what its scope starts with.
PickSeed(s, h, i) ==
  IF i > 1 THEN LET pred == s.body[h][i-1] IN {Port(pred, s.node[pred].outs[1])}
  ELSE IF h = Top THEN {InputSource}
  ELSE {Port(h, "in") : c \in {d \in {h} : Seeded(s.node[d])}}

WithSeed(t, seeds) ==
  [t EXCEPT !.node[t.root].binds = Over([f \in {"seedInput" : b \in seeds} |-> CHOOSE b \in seeds : TRUE], @)]

-----------------------------------------------------------------------------
(* Operations                                                              *)

\* An edit within the bound; an armed port reserves one for its binding.
Edit(s) ==
  /\ edits + (IF armed' = NotArmed THEN 0 ELSE 1) < MaxEdits
  /\ edits' = edits + 1
  /\ spec' = s

Init == spec = Shipped /\ library = {} /\ armed = NotArmed /\ edits = 0

\* A leaf type dropped from the palette arrives without wires.
InsertStep(t, h, i, n) ==
  LET id == << <<t.base, n>> >>
  IN /\ FirstFree(spec, t.base, n, 1..MaxNumber)
     /\ UNCHANGED <<library, armed>>
     /\ Edit(Grafted(spec, h, i,
               [root |-> id, body |-> <<>>, node |-> Only(id, Leaf(t)), inside |-> Only(id, {})]))

\* A saved element dropped from the palette: cloned, seeded, inlined.  Two of
\* its nodes that would get one name are numbered apart in the code; no two do
\* within these bounds, and the guard leaves that case out.
InsertComposite(t, h, i, n) ==
  LET r == FreshIds(t, n)
  IN /\ FirstFree(spec, t.name, n, {0} \cup 2..MaxNumber)
     /\ IsInjective(r) /\ Range(r) \cap Ids(spec) = {}
     /\ UNCHANGED <<library, armed>>
     /\ Edit(Grafted(spec, h, i, WithSeed(Clone(t, r), PickSeed(spec, h, i))))

RemoveStep(x) == UNCHANGED <<library, armed>> /\ Edit(Removed(spec, x))

\* The dropdown: one of the legal sources, or unwired.
BindPort(x, p, b) ==
  /\ b \in LegalSources(spec, x)
  /\ p \in DOMAIN spec.node[x].binds => spec.node[x].binds[p] # b
  /\ UNCHANGED <<library, armed>>
  /\ Edit(Bound(spec, x, p, b))

ClearPort(x, p) ==
  /\ p \in DOMAIN spec.node[x].binds
  /\ UNCHANGED <<library, armed>>
  /\ Edit(Cleared(spec, x, p))

\* The canvas: a click on an input port arms it, a second click disarms it...
ToggleArmPort(x, p) ==
  /\ edits < MaxEdits
  /\ armed' = IF armed = <<x, p>> THEN NotArmed ELSE <<x, p>>
  /\ UNCHANGED <<spec, library, edits>>

\* ... as do Escape, a click on the empty canvas and a look at another spec ...
DisarmPort == armed' = NotArmed /\ UNCHANGED <<spec, library, edits>>

\* ... and a click on a leaf binds it to the leaf's first legal source, looked
\* up when the click happens and not when the port was armed.
BindHere(y) ==
  /\ y # armed[1] /\ y \in Leaves(spec)
  /\ {b \in LegalSources(spec, armed[1]) : b.node = y} # {}
  /\ armed' = NotArmed /\ UNCHANGED library
  /\ Edit(Bound(spec, armed[1], armed[2], Port(y, spec.node[y].outs[1])))

\* "Save as element": groups only, not empty, of leaves and groups only.
SaveComposite(g, name) ==
  /\ spec.node[g].kind = "group" /\ spec.body[g] # <<>>
  /\ \A x \in Below(spec, g) : spec.node[x].kind \in {"step", "group"}
  /\ Cardinality(library) < MaxSaved
  /\ library' = library \cup {Template(spec, g, name)}
  /\ UNCHANGED armed /\ Edit(spec)

DeleteComposite(t) == library' = library \ {t} /\ UNCHANGED <<spec, armed, edits>>

\* A reset keeps the spec's id, so it does not disarm.
ResetSpec == spec # Shipped /\ spec' = Shipped /\ UNCHANGED <<library, armed, edits>>

Next ==
  \/ \E w \in Slots(spec), n \in 0..MaxNumber :
       \/ \E t \in Palette : n > 0 /\ InsertStep(t, w[1], w[2], n)
       \/ \E t \in library : InsertComposite(t, w[1], w[2], n)
  \/ \E x \in Ids(spec) : RemoveStep(x) \/ BindHere(x)
  \/ \E x \in Leaves(spec) : \E p \in spec.node[x].ins :
       \/ ClearPort(x, p)
       \/ ToggleArmPort(x, p)
       \/ \E b \in LegalSources(spec, x) : BindPort(x, p, b)
  \/ DisarmPort
  \/ \E g \in Ids(spec), name \in Names : SaveComposite(g, name)
  \/ \E t \in library : DeleteComposite(t)
  \/ ResetSpec

Spec == Init /\ [][Next]_vars

-----------------------------------------------------------------------------
(* Properties                                                              *)

\* The tree is one: every scope is the top or a container, every node is in
\* one place, its record of what surrounds it is true of that place.
TypeOK ==
  /\ Scopes(spec) = {Top} \cup (Ids(spec) \ Leaves(spec))
  /\ DOMAIN spec.inside = Ids(spec)
  /\ UNION {ToSet(spec.body[h]) : h \in Scopes(spec)} = Ids(spec)
  /\ \A h \in Scopes(spec) : \A x \in ToSet(spec.body[h]) : spec.inside[x] = Enclosing(spec, h)
  /\ edits \in 0..MaxEdits

\* Generated ids never collide: no id names two places of the tree, whatever was
\* removed, saved and dropped before (generateUniqueStepId, cloneGroupWithFreshIds).
IdsAreUnique ==
  \A g, h \in Scopes(spec) : \A i \in DOMAIN spec.body[g], j \in DOMAIN spec.body[h] :
    spec.body[g][i] = spec.body[h][j] => g = h /\ i = j

\* Whatever the dropdown or the canvas offers for a port, the runtime resolves
\* (legalSourcesForInput: "a binding that THROWS at runtime becomes
\* unrepresentable by construction").
OfferedSourcesResolve ==
  \A x \in Leaves(spec) : LegalSources(spec, x) \subseteq SeenBy(spec, x)

\* The validator warns of exactly the bindings at which a run would throw, the
\* chain and the exit excepted, which it does not look at (spec-shapes.ts walk
\* and runtime.ts walk).
ThrowsAreWarned == Warned(spec) = {w \in Throws(spec) : w[2] \notin Unchecked}

\* An element saved from a spec that runs does not depend on where it was: it
\* resolves alone, with any input as its seed (captureCompositeFromGroup).
Alone(t) ==
  [body |-> Over(Only(Top, <<t.root>>), t.body), exit |-> InputSource, inside |-> t.inside,
   node |-> [t.node EXCEPT ![t.root].binds = Over(Only("seedInput", InputSource), @)]]
SavedElementIsClosed ==
  \A t \in library' \ library : Runs(spec) => Runs(Alone(t))

\* Such an element, dropped anywhere but at the head of a body without a seed,
\* leaves a spec that runs running: the copy is wired to its new place and to
\* nothing of the place it came from (insertCompositeIntoSpec).
DroppedElementRuns ==
  Runs(spec) /\ ~Runs(spec') =>
    ~\E t \in library, w \in Slots(spec), n \in 0..MaxNumber :
       /\ Runs(Alone(t)) /\ PickSeed(spec, w[1], w[2]) # {}
       /\ InsertComposite(t, w[1], w[2], n)

\* An element stands alone, from the moment it is saved to every place it is
\* dropped at.
ElementsStandAlone == [][SavedElementIsClosed /\ DroppedElementRuns]_vars

\* A new wire resolves at the moment it is made, also when the spec has changed
\* between arming the port and clicking the source (GraphView's onBindHere).
NewWiresResolve ==
  [][spec' \notin {spec, Shipped} =>
       \A x \in Ids(spec) \cap Ids(spec') : \A p \in DOMAIN spec'.node[x].binds :
         \/ p \in DOMAIN spec.node[x].binds /\ spec.node[x].binds[p] = spec'.node[x].binds[p]
         \/ Resolves(spec', x, p)]_vars

\* And the other way round: a wire that resolves is among the sources offered, so
\* that the editor does not flag it, unless it reads the harvest of a loop, which
\* the enumerator leaves out (port-sources.ts: "the two MUST agree").
WiresAreOffered ==
  \A x \in Leaves(spec) : \A p \in DOMAIN spec.node[x].binds :
    LET b == spec.node[x].binds[p]
    IN Resolves(spec, x, p) =>
         \/ b \in LegalSources(spec, x)
         \/ b.node \in Ids(spec) /\ b.port \in spec.node[b.node].harvest

\* What the editor tells of the spec is what a run would find: the tree is one,
\* an id names one node, exactly the throwing bindings are warned of, and no
\* wire that resolves is missing from the menu.
EditorSeesTheSpec == TypeOK /\ IdsAreUnique /\ ThrowsAreWarned /\ WiresAreOffered

=============================================================================
