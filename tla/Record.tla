------------------------------- MODULE Record -------------------------------
(***************************************************************************)
(* The task record (internal/engine: store.go, merge.go, and what of       *)
(* markdown.go and node.go they rest on).                                  *)
(*                                                                         *)
(* Sessions of one workspace keep a tree of tasks each and share the task  *)
(* documents, which a person edits too.  Reload and Flush read the         *)
(* documents, merge what changed into the tree (three ways, against what   *)
(* the store last saw), and Flush then writes what it rendered, document   *)
(* by document.  flushMu keeps a session to one of them at a time; mu is   *)
(* released between their parts and the session works on.  No lock spans   *)
(* sessions, and the person takes none.                                    *)
(*                                                                         *)
(* A document's content is what ParseDoc reads of it; its hash is the      *)
(* content.  A task is its text and one level of steps: the mark and the   *)
(* evidence of a task itself merge as a step's do.  A line of evidence is  *)
(* a number of its own; owners, scopes, reasons, prose, the note an id     *)
(* repair leaves and the verbatim buffers are left out.  A file is its     *)
(* number: the names of two tasks clash when their numbers do, as with     *)
(* tasks titled alike.                                                     *)
(***************************************************************************)
EXTENDS Naturals, Sequences, FiniteSets, SequencesExt

CONSTANTS
    Sessions,
    Texts,          \* of tasks and steps; each is given to one of them at most
    None,
    MaxFile,        \* bound: the names documents have
    Bounds          \* what a behaviour may have: its sessions, its events, and
                    \* how many calls of the model and edits by hand

Events == {"note", "status", "add", "plan", "fail", "crash",
           "mark", "line", "cut", "step", "drop", "task", "break", "empty", "delete"}
Files == 1 .. MaxFile
NoFile == 0

ASSUME RecordAssumption ==
    /\ MaxFile \in Nat \ {0} /\ None \notin Texts \cup Sessions
    /\ Bounds \subseteq [who : SUBSET Sessions, may : SUBSET Events, calls : Nat, edits : Nat]

VARIABLES
    disk,       \* the document under each name
    asides,     \* contents set aside: .edited and .broken copies
    saved,      \* state.json: the id of the doing step and the session that wrote it
    store,      \* each session's Store
    flush,      \* each session's Flush or Reload: phase and locals
    bound,      \* of Bounds; it never changes
    named, ink, calls, edits,   \* texts in use; lines, calls and edits so far
    gone,       \* history: lines a person cut, a crash took or a race overwrote
    cut         \* history: file and line, where a cut has to last

tally == <<bound, named, ink, calls, edits>>
history == <<gone, cut>>
vars == <<disk, asides, saved, store, flush, tally, history>>

Statuses == {"todo", "doing", "done"}
NoNode == [id |-> 0, text |-> None, st |-> None, ev |-> {}]
NoTask == [id |-> 0, text |-> None, kids |-> <<>>]
Doc(roots) == [is |-> "tasks", roots |-> roots]
Bare  == Doc(<<>>)
Bad   == [is |-> "bad", roots |-> <<>>]
NoDoc == [is |-> "none", roots |-> <<>>]
Unseen == [doc |-> NoDoc, base |-> NoTask]
NoStore == [up |-> FALSE, tree |-> <<>>, seen |-> [f \in Files |-> Unseen],
            reserved |-> {}, dirty |-> FALSE, moved |-> FALSE]
NoFlush == [pc |-> "idle", got |-> [f \in Files |-> NoDoc], writes |-> <<>>, cur |-> NoDoc,
            written |-> {}, names |-> <<>>, active |-> None]

Least(S) == CHOOSE x \in S : \A y \in S : x <= y
\* nextIndex: one past the highest id of a list.
NextIndex(seq) == 1 + CHOOSE m \in {0} \cup {seq[k].id : k \in DOMAIN seq} :
                          \A k \in DOMAIN seq : seq[k].id <= m

Task(r) == [id |-> r.id, text |-> r.text, kids |-> r.kids]
Root(f, id, t) == [file |-> f, id |-> id, text |-> t.text, kids |-> t.kids]
Render(r) == Doc(<<Task(r)>>)
RootsOf(tree, f) == {i \in DOMAIN tree : tree[i].file = f}

\* The numbers of S up to n, in their order.
InOrder(S, n) ==
    LET upTo[k \in 0 .. n] == IF k = 0 THEN <<>>
                              ELSE IF k \in S THEN Append(upTo[k - 1], k) ELSE upTo[k - 1]
    IN  upTo[n]

\* ParseDoc: a step's id is its position, whatever the document says.
Parse(t) == [t EXCEPT !.kids = [k \in DOMAIN @ |-> [@[k] EXCEPT !.id = k]]]

EvOf(kids) == UNION {kids[k].ev : k \in DOMAIN kids}
Lines(c) == UNION {EvOf(c.roots[i].kids) : i \in DOMAIN c.roots}
TreeLines(tree) == UNION {EvOf(tree[i].kids) : i \in DOMAIN tree}
Places(tree) == {p \in (DOMAIN tree) \X (1 .. Cardinality(Texts)) : p[2] \in DOMAIN tree[p[1]].kids}
At(tree, p) == tree[p[1]].kids[p[2]]
IdAt(tree, p) == <<tree[p[1]].id, At(tree, p).id>>
SetMark(tree, p, st) == [tree EXCEPT ![p[1]].kids[p[2]].st = st]

\* Tree.Doing: the first step marked doing; <<>> when there is none.
Doing(tree) ==
    LET marked == {p \in Places(tree) : At(tree, p).st = "doing"} IN
    IF marked = {} THEN <<>>
    ELSE CHOOSE p \in marked : \A q \in marked : p[1] < q[1] \/ (p[1] = q[1] /\ p[2] <= q[2])
TakeBack(tree) == IF Doing(tree) = <<>> THEN tree ELSE SetMark(tree, Doing(tree), "todo")

------------------------------------------------------------------------------
(* merge.go: one document into the tree.                                   *)

\* pairNodes: the n-th of a text with the n-th of it, then what is left by its
\* number alike; 0 is no pair.
PairNodes(a, b) ==
    LET alike(s, i) == Cardinality({j \in 1 .. i : s[j].text = s[i].text})
        same == {p \in (DOMAIN a) \X (DOMAIN b) :
                    a[p[1]].text = b[p[2]].text /\ alike(a, p[1]) = alike(b, p[2])}
        left(s, n) == {i \in DOMAIN s : \A p \in same : p[n] # i}
        nth(s, n, i) == Cardinality({j \in left(s, n) : j <= i /\ s[j].id = s[i].id})
        numbered == {p \in left(a, 1) \X left(b, 2) :
                        a[p[1]].id = b[p[2]].id /\ nth(a, 1, p[1]) = nth(b, 2, p[2])}
        pair(x) == {y \in DOMAIN b : <<x, y>> \in same \cup numbered}
    IN  [x \in DOMAIN a |-> IF pair(x) = {} THEN 0 ELSE Least(pair(x))]

\* Mutant: the base is not asked, so what was cut comes back.
MergeEvidenceUnion(ours, theirs, base) == theirs \cup ours
\* mergeDocEvidence, for lines that are all different.
MergeEvidence(ours, theirs, base) == theirs \cup (ours \ base)

MergeNode(o, t, b) ==
    [id |-> o.id,
     text |-> IF t.text # b.text THEN t.text ELSE o.text,
     st |-> IF t.st # b.st THEN t.st ELSE o.st,
     ev |-> MergeEvidence(o.ev, t.ev, b.ev)]

UnchangedSince(o, b) == o.text = b.text /\ o.st = b.st /\ o.ev \subseteq b.ev

\* mergeNode on the children: the document's order leads, what only this
\* store has follows, an added step gets a number no sibling has.
MergeKids(ours, theirs, base) ==
    LET toTheirs == PairNodes(ours, theirs)
        toBase == PairNodes(ours, base)
        Was(x) == IF toBase[x] = 0 THEN NoNode ELSE base[toBase[x]]
        Mine(y) == {x \in DOMAIN ours : toTheirs[x] = y}
        Stays(x) == toTheirs[x] = 0 /\ ~(toBase[x] # 0 /\ UnchangedSince(ours[x], Was(x)))
        settled == [x \in {z \in DOMAIN ours : toTheirs[z] # 0 \/ Stays(z)} |-> ours[x]]
        Added(y) == Cardinality({z \in 1 .. y : Mine(z) = {}})
        lead == [y \in DOMAIN theirs |->
                    IF Mine(y) = {} THEN [theirs[y] EXCEPT !.id = NextIndex(settled) + Added(y) - 1]
                    ELSE LET x == Least(Mine(y)) IN MergeNode(ours[x], theirs[y], Was(x))]
        rest == InOrder({x \in DOMAIN ours : Stays(x)}, Len(ours))
    IN  lead \o [k \in DOMAIN rest |-> ours[rest[k]]]

\* userDoing: the place in the merged list whose doing mark is the document's.
UserDoing(ours, theirs, base) ==
    LET toTheirs == PairNodes(ours, theirs)
        toBase == PairNodes(ours, base)
        Mine(y) == {x \in DOMAIN ours : toTheirs[x] = y}
        doing == {y \in DOMAIN theirs : theirs[y].st = "doing"}
        added == {y \in doing : Mine(y) = {}}
        moved == {y \in doing \ added : \E x \in Mine(y) :
                     /\ ours[x].st # "doing"
                     /\ toBase[x] = 0 \/ base[toBase[x]].st # "doing"}
        Greatest(S) == CHOOSE x \in S : \A y \in S : y <= x
    IN  IF added # {} THEN Greatest(added) ELSE IF moved # {} THEN Greatest(moved) ELSE 0

Changed(st) == [st EXCEPT !.moved = TRUE]
MarkDirty(st) == [st EXCEPT !.dirty = TRUE, !.moved = TRUE]
See(st, f, c) == [st EXCEPT !.seen[f] = [doc |-> c, base |-> Parse(c.roots[1])]]
DirtyIfDiffers(st, c, i) ==
    IF Render(st.tree[i]) # c \/ Len(c.roots) > 1 THEN MarkDirty(st) ELSE Changed(st)

\* A document this store has never had joins the tree.
Join(st, f, roots) ==
    [st EXCEPT !.tree = @ \o [k \in DOMAIN roots |-> Root(f, NextIndex(st.tree) + k - 1, Parse(roots[k]))]]

\* The document's first task meets this store's, the others are paired by
\* text or taken on.
MergeRoot(acc, st, f, roots, k) ==
    LET mine == RootsOf(st.tree, f)
        t == Parse(roots[k])
        is == IF k = 1 THEN {Least(mine)}
              ELSE {i \in mine \ {Least(mine)} : acc.tree[i].text = t.text}
        i == Least(is)
        b == IF k = 1 THEN st.seen[f].base ELSE NoTask
        u == UserDoing(acc.tree[i].kids, t.kids, b.kids)
    IN  IF is = {}
        THEN [acc EXCEPT !.tree = Append(@, Root(f, NextIndex(@), t))]
        ELSE [tree |-> [acc.tree EXCEPT
                          ![i].text = IF t.text # b.text THEN t.text ELSE @,
                          ![i].kids = MergeKids(@, t.kids, b.kids)],
              user |-> IF u = 0 THEN acc.user ELSE <<i, u>>]

\* A doing mark made in the document displaces all others.
Displace(tree, user) ==
    IF user = <<>> THEN tree
    ELSE [i \in DOMAIN tree |-> [tree[i] EXCEPT !.kids =
             [k \in DOMAIN @ |-> IF @[k].st = "doing" /\ <<i, k>> # user
                                 THEN [@[k] EXCEPT !.st = "todo"] ELSE @[k]]]]
MergeRoots(st, f, roots) ==
    LET merged[k \in 0 .. Len(roots)] ==
            IF k = 0 THEN [tree |-> st.tree, user |-> <<>>] ELSE MergeRoot(merged[k - 1], st, f, roots, k)
    IN  Displace(merged[Len(roots)].tree, merged[Len(roots)].user)

MergeDoc(st, f, c) ==
    LET mine == RootsOf(st.tree, f) IN
    CASE c = Bad -> st
      [] c = Bare -> IF mine = {} THEN [st EXCEPT !.reserved = @ \cup {f}] ELSE MarkDirty(st)
      [] c \notin {Bad, Bare} /\ mine = {} -> DirtyIfDiffers(See(Join(st, f, c.roots), f, c), c, Len(st.tree) + 1)
      [] OTHER -> DirtyIfDiffers(See([st EXCEPT !.tree = MergeRoots(st, f, c.roots)], f, c), c, Least(mine))

\* reconcile, for the documents as they were read.
IsChanged(st, got, f) ==
    /\ got[f] # NoDoc /\ got[f] # st.seen[f].doc
    /\ ~(f \in st.reserved /\ got[f] = Bare)
Reconcile(st, got) ==
    LET kept == [st EXCEPT !.seen = [f \in Files |-> IF got[f] = NoDoc THEN Unseen ELSE @[f]]]
        merged[f \in 0 .. MaxFile] ==
            IF f = 0 THEN kept
            ELSE IF IsChanged(st, got, f) THEN MergeDoc(merged[f - 1], f, got[f]) ELSE merged[f - 1]
    IN  merged[MaxFile]

------------------------------------------------------------------------------
(* store.go: names, and what a start makes of the documents.               *)

\* docNamesLocked: a root keeps its file unless the name is taken before it,
\* and the others get the next number free.
KeepsName(st, i) ==
    /\ st.tree[i].file \notin st.reserved \cup {NoFile}
    /\ \A j \in 1 .. i - 1 : st.tree[j].file # st.tree[i].file
NamesKept(st) == st.reserved \cup {st.tree[i].file : i \in {j \in DOMAIN st.tree : KeepsName(st, j)}}
Name(st, names, i) ==
    IF KeepsName(st, i) THEN st.tree[i].file
    ELSE Least((i .. MaxFile + Len(st.tree)) \ (NamesKept(st) \cup ToSet(names)))
DocNames(st) ==
    LET names[i \in 0 .. Len(st.tree)] ==
            IF i = 0 THEN <<>> ELSE Append(names[i - 1], Name(st, names[i - 1], i))
    IN  names[Len(st.tree)]

IsFirst(tree, f, i) == tree[i].file = f /\ \A j \in 1 .. i - 1 : tree[j].file # f
FirstOf(tree, i) == IsFirst(tree, tree[i].file, i)
SameSubtree(a, b) ==
    /\ a.text = b.text /\ Len(a.kids) = Len(b.kids)
    /\ \A k \in DOMAIN a.kids : [a.kids[k] EXCEPT !.id = 0] = [b.kids[k] EXCEPT !.id = 0]

\* dropSplitDuplicates: the copy a split left in its source document, from the
\* last root back.  What is a document's first root is asked of the tree as it
\* was, also when roots before it have gone.
DropCopy(was, tree, i) ==
    IF /\ ~FirstOf(was, i)
       /\ \E j \in DOMAIN tree : /\ tree[j].file # tree[i].file
                                 /\ IsFirst(was, tree[j].file, j) /\ SameSubtree(tree[i], tree[j])
    THEN RemoveAt(tree, i) ELSE tree
DropSplitDuplicates(st) ==
    LET n == Len(st.tree)
        left[k \in 0 .. n] == IF k = 0 THEN st.tree ELSE DropCopy(st.tree, left[k - 1], n + 1 - k)
    IN  IF left[n] = st.tree THEN st ELSE MarkDirty([st EXCEPT !.tree = left[n]])

\* repairRootIDs: a task's id is its position.
RepairRootIDs(st) ==
    IF \A i \in DOMAIN st.tree : st.tree[i].id = i THEN st
    ELSE MarkDirty([st EXCEPT !.tree = [i \in DOMAIN @ |-> [@[i] EXCEPT !.id = i]]])

\* loadDocs, but for setting aside what cannot be parsed.
LoadDoc(st, f, c) ==
    CASE c = NoDoc -> st
      [] c = Bad -> MarkDirty(st)
      [] c = Bare -> [st EXCEPT !.reserved = @ \cup {f}]
      [] OTHER -> [See(st, f, c) EXCEPT !.tree = @ \o [k \in DOMAIN c.roots |->
                       LET t == Parse(c.roots[k]) IN Root(f, t.id, t)]]
LoadDocs(docs) ==
    LET loaded[f \in 0 .. MaxFile] ==
            IF f = 0 THEN [NoStore EXCEPT !.up = TRUE] ELSE LoadDoc(loaded[f - 1], f, docs[f])
    IN  RepairRootIDs(DropSplitDuplicates(loaded[MaxFile]))

\* startFresh: the mark the last session left is taken back, a person's is not.
StartFresh(st, active) ==
    LET is == {p \in Places(st.tree) : IdAt(st.tree, p) = active /\ At(st.tree, p).st = "doing"} IN
    MarkDirty(IF is = {} THEN st ELSE [st EXCEPT !.tree = SetMark(@, CHOOSE p \in is : TRUE, "todo")])

\* The person leaves docs; the sessions in running have just resumed on them.
Begin(docs, running, texts, lines) ==
    /\ disk = docs
    /\ bound \in Bounds /\ named = texts /\ ink = lines /\ calls = 0 /\ edits = 0
    /\ asides = {} /\ saved = [active |-> None, session |-> None]
    /\ store = [s \in Sessions |-> IF s \in running \cap bound.who THEN LoadDocs(docs) ELSE NoStore]
    /\ flush = [s \in Sessions |-> NoFlush]
    /\ gone = {} /\ cut = {}
Init == \E running \in SUBSET Sessions : Begin([f \in Files |-> NoDoc], running, {}, 0)

------------------------------------------------------------------------------
(* Sessions: OpenAt and the end of the process.                            *)

\* OpenAt.  A document that cannot be parsed is renamed aside.
OpenAt(s, resumed) ==
    /\ ~store[s].up /\ s \in bound.who
    /\ LET st == LoadDocs(disk) IN
       store' = [store EXCEPT ![s] = IF resumed \/ saved.session = s THEN st
                                     ELSE StartFresh(st, saved.active)]
    /\ asides' = asides \cup {disk[f] : f \in {g \in Files : disk[g] = Bad}}
    /\ disk' = [f \in Files |-> IF disk[f] = Bad THEN NoDoc ELSE disk[f]]
    /\ UNCHANGED <<saved, flush, tally, history>>

Crash(s) ==
    /\ "crash" \in bound.may /\ store[s].up
    /\ gone' = gone \cup (TreeLines(store[s].tree) \ UNION {Lines(disk[f]) : f \in Files})
    /\ store' = [store EXCEPT ![s] = NoStore]
    /\ flush' = [flush EXCEPT ![s] = NoFlush]
    /\ UNCHANGED <<disk, asides, saved, tally, cut>>

(* The model's work: each is one hold of mu, at any time.                  *)
Work(s, kind, st) ==
    /\ kind \in bound.may /\ calls < bound.calls
    /\ store' = [store EXCEPT ![s] = MarkDirty(st)]
    /\ calls' = calls + 1
    /\ UNCHANGED <<disk, asides, saved, flush, bound, edits, history>>

Note(s, p) ==
    /\ p \in Places(store[s].tree)
    /\ Work(s, "note", [store[s] EXCEPT !.tree[p[1]].kids[p[2]].ev = @ \cup {ink + 1}])
    /\ ink' = ink + 1 /\ UNCHANGED named

\* SetStatus: exactly one step is doing, the one before goes back to todo.
SetStatus(s, p, st) ==
    /\ p \in Places(store[s].tree) /\ At(store[s].tree, p).st # st
    /\ LET tree == store[s].tree IN
       Work(s, "status", [store[s] EXCEPT !.tree = SetMark(IF st = "doing" THEN TakeBack(tree) ELSE tree, p, st)])
    /\ UNCHANGED <<named, ink>>

Add(s, i, text) ==
    /\ i \in DOMAIN store[s].tree /\ text \in Texts \ named
    /\ Work(s, "add", [store[s] EXCEPT !.tree[i].kids =
                   Append(@, [id |-> NextIndex(@), text |-> text, st |-> "todo", ev |-> {}])])
    /\ named' = named \cup {text} /\ UNCHANGED ink

\* Plan, with one step.
Plan(s, text, step) ==
    /\ store[s].up /\ {text, step} \subseteq Texts \ named /\ text # step
    /\ Len(store[s].tree) + Cardinality(store[s].reserved) < MaxFile
    /\ Work(s, "plan", [store[s] EXCEPT !.tree = Append(TakeBack(@),
                   [file |-> NoFile, id |-> NextIndex(@), text |-> text,
                    kids |-> <<[id |-> 1, text |-> step, st |-> "todo", ev |-> {}]>>])])
    /\ named' = named \cup {text, step} /\ UNCHANGED ink

------------------------------------------------------------------------------
(* Reload and Flush, under flushMu.                                        *)
Holds(s, pc) == store[s].up /\ flush[s].pc = pc
Reading(s, pc) ==
    /\ flush' = [flush EXCEPT ![s] = [NoFlush EXCEPT !.pc = pc, !.got = disk]]
    /\ UNCHANGED <<disk, asides, saved, store, tally, history>>
Merging(s, pc) ==
    /\ store' = [store EXCEPT ![s] = Reconcile(@, flush[s].got)]
    /\ flush' = [flush EXCEPT ![s] = [NoFlush EXCEPT !.pc = pc]]
    /\ UNCHANGED <<disk, asides, saved, tally, history>>

Reload(s) == Holds(s, "idle") /\ disk # [f \in Files |-> store[s].seen[f].doc] /\ Reading(s, "reload")
ReloadMerge(s) == Holds(s, "reload") /\ Merging(s, "idle")
Flush(s) == Holds(s, "idle") /\ store[s].dirty /\ Reading(s, "merge")
FlushMerge(s) == Holds(s, "merge") /\ Merging(s, "render")

\* The snapshot: what to write where, a task split off its document first,
\* and nothing that is what the store last saw there.
FlushRender(s) ==
    /\ Holds(s, "render")
    /\ LET st == store[s]
           names == DocNames(st)
           differs == {i \in DOMAIN names : st.seen[names[i]].doc # Render(st.tree[i])}
           split == {i \in DOMAIN names : st.tree[i].file \notin {NoFile, names[i]}}
           order == InOrder(differs \cap split, Len(names)) \o InOrder(differs \ split, Len(names))
           writes == [k \in DOMAIN order |-> [file |-> names[order[k]], task |-> Task(st.tree[order[k]])]]
       IN  /\ ToSet(names) \subseteq Files
           /\ store' = [store EXCEPT ![s].moved = FALSE]
           /\ flush' = [flush EXCEPT ![s] = [NoFlush EXCEPT
                  !.pc = IF writes = <<>> THEN "save" ELSE "look", !.names = names, !.writes = writes,
                  !.active = IF Doing(st.tree) = <<>> THEN None ELSE IdAt(st.tree, Doing(st.tree))]]
    /\ UNCHANGED <<disk, asides, saved, tally, history>>

\* writeDoc reads what it is about to replace.
Look(s) ==
    /\ Holds(s, "look")
    /\ flush' = [flush EXCEPT ![s].pc = "put", ![s].cur = disk[Head(flush[s].writes).file]]
    /\ UNCHANGED <<disk, asides, saved, store, tally, history>>

\* Mutant: what a merge could not take is written over.
UnknownNever(s, w, cur) == FALSE
Unknown(s, w, cur) == cur \notin {NoDoc, store[s].seen[w.file].doc, Doc(<<w.task>>)}

Aside(s) == LET w == Head(flush[s].writes) IN IF Unknown(s, w, flush[s].cur) THEN {flush[s].cur} ELSE {}

\* writeDoc sets aside content it does not know, and replaces the document.
Put(s) ==
    /\ Holds(s, "put")
    /\ LET w == Head(flush[s].writes)
           cur == flush[s].cur
           body == Doc(<<w.task>>)
           rest == Tail(flush[s].writes)
       IN  /\ asides' = asides \cup Aside(s)
           /\ gone' = gone \cup (IF disk[w.file] = cur THEN {} ELSE Lines(disk[w.file]) \ Lines(body))
           /\ cut' = IF Unknown(s, w, cur) \/ disk[w.file] # cur
                     THEN {c \in cut : c[1] # w.file} ELSE cut
           /\ disk' = [disk EXCEPT ![w.file] = body]
           /\ flush' = [flush EXCEPT ![s].writes = rest, ![s].cur = NoDoc,
                                     ![s].written = @ \cup {w},
                                     ![s].pc = IF rest = <<>> THEN "save" ELSE "look"]
    /\ UNCHANGED <<saved, store, tally>>

Remember(st, written) ==
    [st EXCEPT !.seen = [f \in Files |-> IF \E w \in written : w.file = f
        THEN LET w == CHOOSE w \in written : w.file = f IN [doc |-> Doc(<<w.task>>), base |-> w.task]
        ELSE @[f]]]

Snapshot(s) == [active |-> flush[s].active, session |-> s]

\* A write fails, of the document (before the copy or after it), of state.json
\* or of the notes: what reached the disk is remembered, the store stays dirty.
FlushFails(s) ==
    /\ "fail" \in bound.may /\ store[s].up
    /\ \/ flush[s].pc = "put" /\ asides' \in {asides, asides \cup Aside(s)} /\ UNCHANGED saved
       \/ flush[s].pc = "save" /\ saved' \in {saved, Snapshot(s)} /\ UNCHANGED asides
    /\ store' = [store EXCEPT ![s] = Remember(@, flush[s].written)]
    /\ flush' = [flush EXCEPT ![s] = NoFlush]
    /\ UNCHANGED <<disk, tally, history>>

\* Mutant: a change made during the writes is taken for saved.
CleanAnyway(st) == [st EXCEPT !.dirty = FALSE]
Clean(st) == [st EXCEPT !.dirty = st.moved]

\* state.json, then the bookkeeping: dirty stays for what changed meanwhile.
FlushEnd(s) ==
    /\ Holds(s, "save")
    /\ saved' = Snapshot(s)
    /\ LET names == flush[s].names
           st == Remember(store[s], flush[s].written)
       IN  store' = [store EXCEPT ![s] = Clean([st EXCEPT
               !.tree = [i \in DOMAIN @ |-> IF i \in DOMAIN names THEN [@[i] EXCEPT !.file = names[i]]
                                            ELSE @[i]]])]
    /\ flush' = [flush EXCEPT ![s] = NoFlush]
    /\ UNCHANGED <<disk, asides, tally, history>>

------------------------------------------------------------------------------
(* The person: an edit is one save of a document.                          *)
Save(kind, f, c) ==
    /\ kind \in bound.may /\ edits < bound.edits /\ disk[f].is = "tasks"
    /\ disk' = [disk EXCEPT ![f] = c]
    /\ edits' = edits + 1
    /\ UNCHANGED <<asides, saved, store, flush, bound, calls>>
Kids(f, i) == disk[f].roots[i].kids
WithKids(f, i, kids) == [disk[f] EXCEPT !.roots[i].kids = kids]

MarkByHand(f, i, k, st) ==
    /\ Kids(f, i)[k].st # st
    /\ Save("mark", f, WithKids(f, i, [Kids(f, i) EXCEPT ![k].st = st]))
    /\ UNCHANGED <<named, ink, history>>
LineByHand(f, i, k) ==
    /\ Save("line", f, WithKids(f, i, [Kids(f, i) EXCEPT ![k].ev = @ \cup {ink + 1}]))
    /\ ink' = ink + 1 /\ UNCHANGED <<named, history>>
CutLine(f, i, k, l) ==
    /\ Save("cut", f, WithKids(f, i, [Kids(f, i) EXCEPT ![k].ev = @ \ {l}]))
    /\ gone' = gone \cup {l} /\ cut' = cut \cup {<<f, l>>}
    /\ UNCHANGED <<named, ink>>
StepByHand(f, i, text) ==
    /\ text \in Texts \ named
    /\ Save("step", f, WithKids(f, i, Append(Kids(f, i), [id |-> 0, text |-> text, st |-> "todo", ev |-> {}])))
    /\ named' = named \cup {text} /\ UNCHANGED <<ink, history>>
DropStep(f, i, k) ==
    /\ Save("drop", f, WithKids(f, i, RemoveAt(Kids(f, i), k)))
    /\ gone' = gone \cup Kids(f, i)[k].ev /\ UNCHANGED <<named, ink, cut>>
TaskByHand(f, text) ==
    /\ text \in Texts \ named
    /\ Save("task", f, Doc(Append(disk[f].roots, [id |-> NextIndex(disk[f].roots), text |-> text, kids |-> <<>>])))
    /\ named' = named \cup {text} /\ UNCHANGED <<ink, history>>

\* A document broken, emptied of its tasks, or deleted: the record goes back.
Spoil(f) ==
    /\ \/ disk[f] # Bare /\ Save("empty", f, Bare)
       \/ Save("break", f, Bad)
       \/ Save("delete", f, NoDoc)
    /\ gone' = gone \cup Lines(disk[f]) /\ cut' = {}
    /\ UNCHANGED <<named, ink>>

ByHand ==
    \E f \in Files :
        \/ \E i \in DOMAIN disk[f].roots :
              \/ \E k \in DOMAIN Kids(f, i) :
                    \/ \E st \in Statuses : MarkByHand(f, i, k, st)
                    \/ LineByHand(f, i, k)
                    \/ \E l \in Kids(f, i)[k].ev : CutLine(f, i, k, l)
                    \/ DropStep(f, i, k)
              \/ \E text \in Texts : StepByHand(f, i, text)
        \/ \E text \in Texts : TaskByHand(f, text)
        \/ Spoil(f)

Working(s) ==
    \/ \E p \in Places(store[s].tree) : Note(s, p) \/ \E st \in {"doing", "done"} : SetStatus(s, p, st)
    \/ \E i \in DOMAIN store[s].tree, text \in Texts : Add(s, i, text)
    \/ \E text, step \in Texts : Plan(s, text, step)
Saving(s) ==
    \/ Reload(s) \/ ReloadMerge(s)
    \/ Flush(s) \/ FlushMerge(s) \/ FlushRender(s) \/ Look(s) \/ Put(s) \/ FlushFails(s) \/ FlushEnd(s)
Session(s) ==
    \/ \E resumed \in BOOLEAN : OpenAt(s, resumed)
    \/ Crash(s) \/ Working(s) \/ Saving(s)
Next == ByHand \/ \E s \in Sessions : Session(s)

Spec == Init /\ [][Next]_vars

------------------------------------------------------------------------------
\* The variables hold values of their types, and an id names one task, and
\* one step of it, in a session's tree (nextIndex).
Ink == 1 .. ink
IsNode(n) == n.id \in Nat /\ n.text \in Texts /\ n.st \in Statuses /\ n.ev \subseteq Ink
IsTask(t) == t.id \in Nat /\ t.text \in Texts /\ \A k \in DOMAIN t.kids : IsNode(t.kids[k])
OneEach(seq) == \A i, j \in DOMAIN seq : seq[i].id = seq[j].id => i = j
IsContent(c) == c.is \in {"tasks", "bad", "none"} /\ \A i \in DOMAIN c.roots : IsTask(c.roots[i])
TypeOK ==
    /\ \A f \in Files : IsContent(disk[f])
    /\ \A c \in asides : IsContent(c) /\ c # NoDoc
    /\ saved.active \in (Nat \X Nat) \cup {None} /\ saved.session \in Sessions \cup {None}
    /\ named \subseteq Texts /\ ink \in Nat /\ calls <= bound.calls /\ edits <= bound.edits
    /\ gone \subseteq Ink /\ cut \subseteq Files \X Ink
    /\ \A s \in Sessions :
        /\ OneEach(store[s].tree)
        /\ \A i \in DOMAIN store[s].tree :
              /\ OneEach(store[s].tree[i].kids)
              /\ IsTask(Task(store[s].tree[i]))
              /\ store[s].tree[i].file \in Files \cup {NoFile}
        /\ \A f \in Files : IsContent(store[s].seen[f].doc)
        /\ store[s].reserved \subseteq Files /\ {store[s].dirty, store[s].moved} \subseteq BOOLEAN
        /\ flush[s].pc \in {"idle", "reload", "merge", "render", "look", "put", "save"}
        /\ \A k \in DOMAIN flush[s].writes : flush[s].writes[k].file \in Files
        /\ ~store[s].up => store[s] = NoStore /\ flush[s] = NoFlush

\* Neither side is lost (writeDoc, merge.go): a line a session or a person has
\* written is in a document, in a copy set aside or in the tree of a session,
\* unless a person cut it, a crash took it from memory, or it was saved in the
\* instant between writeDoc's look and its rename.
NothingLost ==
    Ink \subseteq gone \cup (UNION {Lines(disk[f]) : f \in Files}) \cup (UNION {Lines(c) : c \in asides})
                  \cup (UNION {TreeLines(store[s].tree) : s \in Sessions})

\* A line a person cut from a document stays out of it (mergeDocEvidence),
\* unless the document they left was set aside or raced.
CutLasts == \A c \in cut : c[2] \notin Lines(disk[c[1]])

\* A store holds all it saw in a document, and holds something the document
\* has not got only while it is dirty: no flush clears dirty over a change.
Firsts(s) == {i \in DOMAIN store[s].tree : FirstOf(store[s].tree, i) /\ store[s].tree[i].file # NoFile}
SavedOrDirty ==
    \A s \in Sessions :
        /\ \A i \in Firsts(s) :
              LET doc == store[s].seen[store[s].tree[i].file].doc
                  ours == EvOf(store[s].tree[i].kids)
              IN  doc.is = "tasks" /\ doc # Bare =>
                      /\ EvOf(doc.roots[1].kids) \subseteq ours
                      /\ flush[s].pc = "idle" /\ ~store[s].dirty => ours \subseteq EvOf(doc.roots[1].kids)
        /\ store[s].up /\ flush[s].pc = "idle" /\ ~store[s].dirty =>
              \A i \in DOMAIN store[s].tree : store[s].tree[i].file # NoFile

\* "A step only this store has follows it" (mergeNode): a step is in a
\* document, in a copy set aside or in a tree until a person drops it.
KidTexts(kids) == {kids[k].text : k \in DOMAIN kids}
StepTexts(c) == UNION {{c.roots[i].text} \cup KidTexts(c.roots[i].kids) : i \in DOMAIN c.roots}
StepKept ==
    named \subseteq (UNION {StepTexts(disk[f]) : f \in Files}) \cup (UNION {StepTexts(c) : c \in asides})
        \cup (UNION {StepTexts(Doc(store[s].tree)) : s \in Sessions})

\* "Loading both would show it twice" (dropSplitDuplicates): no task is shown
\* twice by a session that opens, whenever it does.
OpensOnce ==
    LET tree == LoadDocs(disk).tree IN
    \A i, j \in DOMAIN tree : i # j => ~SameSubtree(tree[i], tree[j])

=============================================================================
