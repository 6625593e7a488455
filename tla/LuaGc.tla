------------------------------- MODULE LuaGc -------------------------------
(***************************************************************************)
(* The tri-colour collector of flua (src/flua/src/lgc.c, a Lua 5.2) and    *)
(* the mutator operations that have a duty towards it: write barriers,     *)
(* finalizer marking, upvalues, interned strings.  The collector runs a    *)
(* step at a time between mutator operations (incremental mode), a minor   *)
(* collection at a time (generational mode) or a full cycle at once        *)
(* (collectgarbage(), or an allocation that failed).                       *)
(*                                                                         *)
(* The whole global_State and heap are one record g, and the C functions   *)
(* are operators from such a record to the next one.  A table has one node *)
(* (key, value), no array part, and a mode that stands for the __mode of   *)
(* its metatable; metatables themselves are held by the registry.          *)
(***************************************************************************)
EXTENDS Integers, Sequences, FiniteSets, TLC

CONSTANTS
    N,          \* objects that can exist at once (their ids are reused)
    Main,       \* the main thread
    Nil,        \* a null pointer, nil, or a key that is not collectable
    Slots,      \* stack slots of a thread, 1 .. some bound
    Scenarios,  \* what the program is made of; one is chosen at Init: the kind
                \* of each object it may hold, the __modes it gives tables
                \* ("", "k", "v", "kv"), whether they have objects for keys, whether
                \* finalizers are set, and whether it asks for the generational mode
    SweepMax    \* GCSWEEPMAX: elements swept by one step

Objs == 1..N
Cells == Objs \cup {Main}
Kinds == {"table", "udata", "string", "closure", "upval", "proto", "thread"}
Lists == {"allgc", "finobj", "tobefnz", "strt"}
Grays == {"gray", "grayagain", "weak", "ephemeron", "allweak"}
Whites == {"white0", "white1"}

ASSUME ConstantsOK ==
    /\ N \in Nat \ {0} /\ SweepMax \in Nat \ {0}
    /\ Slots = 1..Cardinality(Slots) /\ Slots # {}
    /\ Main \notin Objs /\ Nil \notin Objs \cup {Main}
    /\ \A s \in Scenarios : /\ s.pool \in [Objs -> Kinds \cup {"none"}]
                            /\ s.modes \subseteq {"", "k", "v", "kv"}
                            /\ s.keys \in BOOLEAN /\ s.finalizers \in BOOLEAN
                            /\ s.generations \in BOOLEAN

VARIABLES
    g,          \* the collector's state and the heap
    scenario    \* what the program is made of

vars == <<g, scenario>>

(***************************************************************************)
(* Colours and white marks.                                                *)
(***************************************************************************)
IsWhite(h, o) == o # Nil /\ h.color[o] \in Whites
OtherWhite(h) == IF h.white = "white0" THEN "white1" ELSE "white0"
IsDead(h, o) == h.color[o] = OtherWhite(h)
KeepInvariant(h) == h.gen \/ h.state \in {"propagate", "atomic"}
MakeWhite(h, o) == [h EXCEPT !.color[o] = h.white, !.old[o] = FALSE]

(* Objects whose marking only queues them; the others are visited at once. *)
Queued(h, o) == h.kind[o] \in {"table", "closure", "proto", "thread"}

(* Where the value of an upvalue lives: a stack slot while it is open.     *)
UpvalValue(h, u) ==
    IF h.at[u] = Nil THEN h.val[u] ELSE h.stk[h.at[u][1]][h.at[u][2]]

VisitedAtOnce(h, o) ==
    CASE h.kind[o] = "udata" -> {h.val[o]}
      [] h.kind[o] = "upval" -> {UpvalValue(h, o)}
      [] OTHER -> {}

RECURSIVE WhitesFrom(_, _)
WhitesFrom(h, S) ==
    LET new == {p \in UNION {VisitedAtOnce(h, o) : o \in S} : IsWhite(h, p)} \ S
    IN IF new = {} THEN S ELSE WhitesFrom(h, S \cup new)

(* The gray lists run through one field of the objects, gclist: an object  *)
(* is linked twice if it is in one of them already.                        *)
Linked(h, o) == \E list \in Grays : o \in h[list]
Link(h, list, objects) ==
    [h EXCEPT ![list] = @ \cup objects, !.twice = @ \cup {o \in objects : Linked(h, o)}]

(* markobject and markvalue, for a set of values.                          *)
Mark(h, values) ==
    LET w == WhitesFrom(h, {o \in values : IsWhite(h, o)})
        tone(o) == IF Queued(h, o) \/ h.at[o] # Nil THEN "gray" ELSE "black"
    IN Link([h EXCEPT !.color = [o \in w |-> tone(o)] @@ @],
            "gray", {o \in w : Queued(h, o)})

(***************************************************************************)
(* Traversal.                                                              *)
(***************************************************************************)
RemoveEntry(h, t) ==
    IF h.val[t] = Nil /\ IsWhite(h, h.key[t]) THEN [h EXCEPT !.key[t] = Nil] ELSE h

(* Mutant: strings are as weak as the other objects.                       *)
NoString(h, v) == FALSE

(* iscleared marks the string it is asked about and says no.               *)
IsString(h, v) == v # Nil /\ h.kind[v] = "string"
MarkString(h, v) == IF IsString(h, v) THEN Mark(h, {v}) ELSE h
IsCleared(h, v) == IsWhite(h, v) /\ ~IsString(h, v)

TraverseWeakValue(h, t) ==
    IF h.val[t] = Nil
    THEN Link(RemoveEntry(h, t), "grayagain", {t})
    ELSE LET m == MarkString(Mark(h, {h.key[t]}), h.val[t])
         IN Link(m, IF IsCleared(m, h.val[t]) THEN "weak" ELSE "grayagain", {t})

(* Whether traverseephemeron marks a value, its result.                    *)
EphemeronMarks(h, t) ==
    /\ h.val[t] # Nil /\ ~IsCleared(h, h.key[t])
    /\ IsWhite(MarkString(h, h.key[t]), h.val[t])

TraverseEphemeron(h, t) ==
    LET m == MarkString(h, h.key[t])
    IN CASE h.val[t] = Nil -> Link(RemoveEntry(h, t), "grayagain", {t})
         [] h.val[t] # Nil /\ ~IsCleared(h, h.key[t]) ->
              Link(Mark(m, {h.val[t]}), "grayagain", {t})
         [] OTHER -> Link(h, IF IsWhite(h, h.val[t]) THEN "ephemeron" ELSE "allweak", {t})

TraverseStrong(h, t) ==
    IF h.val[t] = Nil THEN RemoveEntry(h, t) ELSE Mark(h, {h.key[t], h.val[t]})

TraverseTable(h, t) ==
    LET kept == [h EXCEPT !.color[t] = "gray"]
    IN CASE h.mode[t] = ""  -> TraverseStrong(h, t)
         [] h.mode[t] = "v" -> TraverseWeakValue(kept, t)
         [] h.mode[t] = "k" -> TraverseEphemeron(kept, t)
         [] h.mode[t] = "kv" -> Link(kept, "allweak", {t})

(* Mutant: the cache is not cleared.                                       *)
KeepCache(h, p) == h

(* A prototype lets go of a cached closure that is not marked.             *)
TraverseProto(h, p) == IF IsWhite(h, h.val[p]) THEN [h EXCEPT !.val[p] = Nil] ELSE h
TraverseClosure(h, c) == Mark(h, {h.key[c], h.val[c]})
TraverseStack(h, t) == Mark(h, {h.stk[t][s] : s \in Slots})

PropagateMark(h, o) ==
    LET b == [h EXCEPT !.gray = @ \ {o}, !.color[o] = "black"]
    IN CASE h.kind[o] = "table" -> TraverseTable(b, o)
         [] h.kind[o] = "closure" -> TraverseClosure(b, o)
         [] h.kind[o] = "proto" -> TraverseProto(b, o)
         [] h.kind[o] = "thread" ->
              TraverseStack(Link([b EXCEPT !.color[o] = "gray"], "grayagain", {o}), o)

RECURSIVE PropagateAll(_)
PropagateAll(h) ==
    IF h.gray = {} THEN h
    ELSE PropagateAll(PropagateMark(h, CHOOSE o \in h.gray : TRUE))

PropagateList(h, list) == PropagateAll([h EXCEPT !.gray = list])

RetraverseGrays(h) ==
    LET a == PropagateAll([h EXCEPT !.weak = {}, !.grayagain = {}, !.ephemeron = {}])
    IN PropagateList(PropagateList(PropagateList(a, h.grayagain), h.weak), h.ephemeron)

(* One pass over the list of ephemeron tables, then another while it marks.*)
RECURSIVE EphemeronPass(_, _), ConvergeEphemerons(_)
Ephemeron(r, t) ==
    IF EphemeronMarks(r.h, t)
    THEN [h |-> PropagateAll(TraverseEphemeron(r.h, t)), changed |-> TRUE]
    ELSE [r EXCEPT !.h = TraverseEphemeron(@, t)]
EphemeronPass(r, list) ==
    IF list = {} THEN r
    ELSE LET t == CHOOSE x \in list : TRUE
         IN EphemeronPass(Ephemeron(r, t), list \ {t})
AnotherPass(r) == IF r.changed THEN ConvergeEphemerons(r.h) ELSE r.h
ConvergeEphemerons(h) ==
    AnotherPass(EphemeronPass([h |-> [h EXCEPT !.ephemeron = {}], changed |-> FALSE],
                              h.ephemeron))

(* Entries with an unmarked key (or value) lose their value, and then the  *)
(* key if it is unmarked as well.                                          *)
ClearBy(h, field, list) ==
    LET entries == {t \in list : h.val[t] # Nil}
        m == Mark(h, {h[field][t] : t \in {e \in entries : IsString(h, h[field][e])}})
        gone == {t \in entries : IsCleared(m, m[field][t])}
    IN [m EXCEPT !.val = [t \in gone |-> Nil] @@ @,
                 !.key = [t \in {x \in gone : IsWhite(m, m.key[x])} |-> Nil] @@ @]
ClearKeys(h, list) == ClearBy(h, "key", list)
ClearValues(h, list) == ClearBy(h, "val", list)

(***************************************************************************)
(* Freeing and sweeping.  A sweep position is a pointer to a next field:   *)
(* Main stands for the head of the list, an object for its own next field, *)
(* Nil for the end of the sweep.                                           *)
(***************************************************************************)
PlaceOf(h, list, o) == CHOOSE i \in 1..Len(h[list]) : h[list][i] = o
Pointee(h, list, p) ==
    LET i == IF p = Main THEN 1 ELSE PlaceOf(h, list, p) + 1
    IN IF i <= Len(h[list]) THEN h[list][i] ELSE Nil
Without(seq, o) == SelectSeq(seq, LAMBDA x : x # o)

Forget(h, o) ==
    [h EXCEPT !.kind[o] = "free", !.color[o] = "white0", !.old[o] = FALSE,
              !.key[o] = Nil, !.val[o] = Nil, !.mode[o] = "", !.at[o] = Nil,
              !.stk[o] = [s \in Slots |-> Nil] @@ @,
              !.finalized = @ \ {o}, !.separated = @ \ {o}, !.called = @ \ {o}]

(* luaC_checkupvalcolor                                                    *)
CheckUpvalColor(h, u) ==
    IF h.color[u] # "gray" THEN h
    ELSE IF KeepInvariant(h)
         THEN Mark([h EXCEPT !.old[u] = FALSE, !.color[u] = "black"], {h.val[u]})
         ELSE MakeWhite(h, u)

(* luaF_close, from the highest slot down                                  *)
CloseUpval(h, u) ==
    IF IsDead(h, u) THEN Forget(h, u)
    ELSE CheckUpvalColor([h EXCEPT !.val[u] = UpvalValue(h, u), !.at[u] = Nil,
                                   !.allgc = <<u>> \o @], u)
RECURSIVE CloseFrom(_, _, _)
OpenAt(h, t, s) == {u \in Objs : h.at[u] = <<t, s>>}
CloseFrom(h, t, level) ==
    LET levels == {s \in Slots : s >= level /\ OpenAt(h, t, s) # {}}
        top == CHOOSE s \in levels : \A r \in levels : r <= s
    IN IF levels = {} THEN h
       ELSE CloseFrom(CloseUpval(h, CHOOSE u \in OpenAt(h, t, top) : TRUE), t, level)

FreeObj(h, o) ==
    Forget(IF h.kind[o] = "thread" THEN CloseFrom(h, o, 1) ELSE h, o)

Survive(h, o) == IF h.gen THEN [h EXCEPT !.old[o] = TRUE] ELSE MakeWhite(h, o)

(* The open upvalues of a thread, swept from the highest slot down.        *)
RECURSIVE SweepUpvals(_, _, _)
SweepUpvals(h, t, s) ==
    IF s = 0 THEN h
    ELSE IF OpenAt(h, t, s) = {} THEN SweepUpvals(h, t, s - 1)
    ELSE LET u == CHOOSE x \in OpenAt(h, t, s) : TRUE
         IN IF IsDead(h, u) THEN SweepUpvals(Forget(h, u), t, s - 1)
            ELSE IF h.gen /\ h.old[u] THEN h
            ELSE SweepUpvals(Survive(h, u), t, s - 1)
SweepThread(h, t) == SweepUpvals(h, t, Cardinality(Slots))

RECURSIVE SweepList(_, _, _, _)
SweepList(h, list, p, count) ==
    LET o == Pointee(h, list, p)
    IN IF o = Nil THEN [h |-> h, p |-> Nil]
       ELSE IF count = 0 THEN [h |-> h, p |-> p]
       ELSE IF IsDead(h, o)
            THEN SweepList(FreeObj([h EXCEPT ![list] = Without(@, o)], o), list, p, count - 1)
       ELSE IF h.gen /\ h.old[o] THEN [h |-> h, p |-> Nil]
       ELSE SweepList(Survive(IF h.kind[o] = "thread" THEN SweepThread(h, o) ELSE h, o),
                      list, o, count - 1)

RECURSIVE SweepToLive(_, _, _)
UntilLive(r, list, p) == IF r.p = p THEN SweepToLive(r.h, list, p) ELSE r
SweepToLive(h, list, p) == UntilLive(SweepList(h, list, p, 1), list, p)

\* The sweep of a list goes on where it came to.
GoesOn(r, field) == [r.h EXCEPT ![field] = r.p]
SweepFrom(h, list, field) == GoesOn(SweepToLive(h, list, Main), field)
EnterSweep(h) ==
    SweepFrom(SweepFrom([h EXCEPT !.state = "sweepstring"], "finobj", "sweepfin"),
              "allgc", "sweepgc")

(***************************************************************************)
(* Finalization.                                                           *)
(***************************************************************************)
(* Mutant: only the first white object of finobj is separated.             *)
SeparateOne(h) ==
    LET whites == SelectSeq(h.finobj, LAMBDA o : IsWhite(h, o))
    IN IF whites = <<>> THEN h
       ELSE [h EXCEPT !.finobj = Without(@, Head(whites)),
                      !.tobefnz = Append(@, Head(whites)),
                      !.finalized = @ \cup {Head(whites)}]
SeparateToBeFnz(h) ==
    LET goes(o) == IsWhite(h, o)
        moved == SelectSeq(h.finobj, goes)
    IN [h EXCEPT !.finobj = SelectSeq(@, LAMBDA o : ~goes(o)),
                 !.tobefnz = @ \o moved,
                 !.finalized = @ \cup {moved[i] : i \in DOMAIN moved}]

(* Each object to be finalized is made white and marked, one that is       *)
(* linked as well: a table that an object before it marked, or a weak one. *)
(* Its gclist is written over, and the list closes on itself or loses its  *)
(* rest.  The model stops there (stuck).                                   *)
RECURSIVE MarkFrom(_, _)
MarkFrom(h, i) ==
    IF i > Len(h.tobefnz) THEN h
    ELSE IF Linked(h, h.tobefnz[i]) THEN [h EXCEPT !.stuck = TRUE]
    ELSE MarkFrom(Mark(MakeWhite(h, h.tobefnz[i]), {h.tobefnz[i]}), i + 1)
MarkBeingFnz(h) == MarkFrom(h, 1)

(* udata2finalize: the first of tobefnz goes back to allgc.                *)
UdataToFinalize(h) ==
    LET o == Head(h.tobefnz)
        m == [h EXCEPT !.tobefnz = Tail(@), !.allgc = <<o>> \o @,
                       !.separated = @ \ {o}, !.called = @ \cup {o}]
    IN IF KeepInvariant(h) THEN m ELSE MakeWhite(m, o)

(* luaC_checkfinalizer for an object whose metatable has a __gc.           *)
Separated(h, o) ==
    [h EXCEPT !.allgc = Without(@, o), !.finobj = <<o>> \o @, !.separated = @ \cup {o}]
CheckFinalizer(h, o) ==
    IF o \in h.separated \cup h.finalized THEN h
    ELSE LET m == Separated(IF h.sweepgc = o THEN GoesOn(SweepToLive(h, "allgc", o), "sweepgc")
                            ELSE h, o)
         IN IF KeepInvariant(h) THEN [m EXCEPT !.old[o] = FALSE] ELSE MakeWhite(m, o)

(***************************************************************************)
(* A collection cycle.                                                     *)
(***************************************************************************)
RestartCollection(h) ==
    MarkBeingFnz(Mark([h EXCEPT !.gray = {}, !.grayagain = {}, !.weak = {},
                                !.ephemeron = {}, !.allweak = {},
                                !.state = "propagate"], {Main}))

RemarkUpvals(h) ==
    Mark(h, {UpvalValue(h, u) : u \in {x \in Objs : h.at[x] # Nil /\ h.color[x] = "gray"}})

Resurrect(h) == ConvergeEphemerons(PropagateAll(MarkBeingFnz(SeparateToBeFnz(h))))

AllMarked(h) ==
    ConvergeEphemerons(RetraverseGrays(PropagateAll(
        RemarkUpvals([h EXCEPT !.state = "atomic"]))))
\* The values of the weak tables that are not in the lists of before.
Valueless(h, before) ==
    ClearValues(ClearValues(h, h.weak \ before.weak), h.allweak \ before.allweak)
Keyless(h) == ClearKeys(ClearKeys(h, h.ephemeron), h.allweak)
NewWhite(h) == [h EXCEPT !.white = OtherWhite(h)]
NoTables == [weak |-> {}, allweak |-> {}]

(* Mutant: values are cleared after the objects to finalize are marked.    *)
SeparatesFirst(h) == NewWhite(Valueless(Keyless(Resurrect(AllMarked(h))), NoTables))

Finalizing(h) == NewWhite(Valueless(Keyless(Resurrect(h)), h))
Atomic(h) == Finalizing(Valueless(AllMarked(h), NoTables))

SweepStrings(h) ==
    [SweepList(h, "strt", Main, N + 1).h EXCEPT !.state = "sweepudata"]

SweepPart(h, list, field, next) ==
    IF h[field] = Nil THEN [h EXCEPT !.state = next]
    ELSE GoesOn(SweepList(h, list, h[field], SweepMax), field)

(* The end of the sweep sweeps the main thread too.                        *)
SweepMain(h) ==
    [(IF h.gen /\ h.old[Main] THEN h ELSE Survive(SweepThread(h, Main), Main))
        EXCEPT !.state = "pause"]

MarkPhase(h, o) == IF h.gray # {} THEN PropagateMark(h, o) ELSE EnterSweep(Atomic(h))

SweepPhase(h) ==
    CASE h.state = "sweepstring" -> SweepStrings(h)
      [] h.state = "sweepudata"  -> SweepPart(h, "finobj", "sweepfin", "sweep")
      [] h.state = "sweep" /\ h.sweepgc # Nil -> SweepPart(h, "allgc", "sweepgc", "sweep")
      [] h.state = "sweep" /\ h.sweepgc = Nil -> SweepMain(h)

SingleStep(h) ==
    CASE h.state = "pause"     -> RestartCollection(h)
      [] h.state = "propagate" -> MarkPhase(h, CHOOSE o \in h.gray \cup {Main} :
                                                  h.gray # {} => o \in h.gray)
      [] OTHER                 -> SweepPhase(h)

RECURSIVE RunTilState(_, _)
RunTilState(h, states) ==
    IF h.state \in states THEN h ELSE RunTilState(SingleStep(h), states)

ChangeMode(h, gen) ==
    CASE gen = h.gen -> h
      [] gen /\ ~h.gen -> [RunTilState(h, {"propagate"}) EXCEPT !.gen = TRUE]
      [] ~gen /\ h.gen -> RunTilState(EnterSweep([h EXCEPT !.gen = FALSE]),
                                      {"propagate", "atomic", "pause"})

MinorCollection(h) == [RunTilState(h, {"pause"}) EXCEPT !.state = "propagate"]

(* Mutant: a cycle that is marking is finished, not undone.                *)
FinishCycle(h) ==
    [RunTilState([h EXCEPT !.gen = FALSE], {"pause"}) EXCEPT !.gen = h.gen,
        !.state = IF h.gen THEN "propagate" ELSE "pause"]

FullCycle(h) ==
    LET inc == [h EXCEPT !.gen = FALSE]
        swept == RunTilState(IF KeepInvariant(inc) THEN EnterSweep(inc) ELSE inc, {"pause"})
        done == RunTilState(SingleStep(swept), {"pause"})
    IN [RunTilState(done, IF h.gen THEN {"propagate"} ELSE {"pause"}) EXCEPT !.gen = h.gen]

(***************************************************************************)
(* The program: it reaches what its stack reaches.                         *)
(***************************************************************************)
Init ==
    /\ scenario \in Scenarios
    /\ g = [kind |-> [o \in Cells |-> IF o = Main THEN "thread" ELSE "free"],
            color |-> [o \in Cells |-> "white0"],
            old |-> [o \in Cells |-> FALSE],
            key |-> [o \in Cells |-> Nil],
            val |-> [o \in Cells |-> Nil],
            mode |-> [o \in Cells |-> ""],
            at |-> [o \in Cells |-> Nil],
            stk |-> [o \in Cells |-> [s \in Slots |-> Nil]],
            allgc |-> <<>>, finobj |-> <<>>, tobefnz |-> <<>>, strt |-> <<>>,
            gray |-> {}, grayagain |-> {}, weak |-> {}, ephemeron |-> {}, allweak |-> {},
            twice |-> {}, stuck |-> FALSE,
            finalized |-> {}, separated |-> {}, called |-> {},
            state |-> "pause", gen |-> FALSE, white |-> "white0",
            sweepgc |-> Nil, sweepfin |-> Nil]

Stack(s) == g.stk[Main][s]
Holds(s, kind) == Stack(s) # Nil /\ g.kind[Stack(s)] = kind
Put(h, t, s, v) == [h EXCEPT !.stk[t][s] = v]
Become(h) ==
    /\ ~g.stuck
    /\ g' = (IF h.stuck THEN [g EXCEPT !.stuck = TRUE] ELSE h) /\ UNCHANGED scenario
Room(kind) == \E o \in Objs : scenario.pool[o] = kind /\ g.kind[o] = "free"
NextId(h, kind) ==
    LET room == {o \in Objs : scenario.pool[o] = kind /\ h.kind[o] = "free"}
    IN CHOOSE o \in room : \A p \in room : o <= p

(* luaC_newobj                                                             *)
NewObj(h, kind) ==
    LET list == IF kind = "string" THEN "strt" ELSE "allgc"
        o == NextId(h, kind)
    IN [h EXCEPT !.kind[o] = kind, !.color[o] = h.white, ![list] = <<o>> \o @]

(* The collector's part of a store of v into o.                            *)
BarrierForward(h, o, v) ==
    IF IsWhite(h, v) /\ h.color[o] = "black"
    THEN IF KeepInvariant(h) THEN Mark(h, {v}) ELSE MakeWhite(h, o)
    ELSE h
BarrierBack(h, o, v) ==
    IF IsWhite(h, v) /\ h.color[o] = "black"
    THEN Link([h EXCEPT !.color[o] = "gray"], "grayagain", {o})
    ELSE h
(* Mutant: the first closure of a prototype gets no barrier.               *)
BarrierLater(h, p, c) ==
    IF h.color[p] # "black" \/ h.val[p] = Nil THEN h
    ELSE Link([h EXCEPT !.color[p] = "gray"], "grayagain", {p})

BarrierProto(h, p, c) ==
    IF h.color[p] # "black" THEN h
    ELSE IF h.val[p] = Nil THEN BarrierForward(h, p, c)
    ELSE Link([h EXCEPT !.color[p] = "gray"], "grayagain", {p})

New(s) ==
    \E kind \in Kinds \ {"closure", "upval"}, m \in scenario.modes \cup {""} :
        /\ Room(kind)
        /\ IF kind = "table" THEN m \in scenario.modes ELSE m = ""
        /\ LET o == NextId(g, kind)
           IN Become(Put([NewObj(g, kind) EXCEPT !.mode[o] = m], Main, s, o))

(* internshrstr finds a string by its bytes, reachable or not.             *)
Intern(s) ==
    \E o \in Objs :
        /\ g.kind[o] = "string"
        /\ Become(Put(IF IsDead(g, o) THEN [g EXCEPT !.color[o] = g.white] ELSE g,
                      Main, s, o))

(* What the program can read out of an object.                             *)
Readable(h, o) ==
    CASE h.kind[o] = "table" -> IF h.val[o] = Nil THEN {} ELSE {h.key[o], h.val[o]} \ {Nil}
      [] h.kind[o] = "udata" -> {h.val[o]} \ {Nil}
      [] h.kind[o] = "closure" -> {UpvalValue(h, h.val[o])} \ {Nil}
      [] h.kind[o] = "thread" -> {h.stk[o][s] : s \in Slots} \ {Nil}
      [] OTHER -> {}

Read(s, d) ==
    /\ Stack(s) # Nil
    /\ \E v \in Readable(g, Stack(s)) : Become(Put(g, Main, d, v))

(* A local goes out of scope; one that is captured is closed instead.      *)
Pop(s) == Stack(s) # Nil /\ OpenAt(g, Main, s) = {} /\ Become(Put(g, Main, s, Nil))

Values == {Nil} \cup {Stack(s) : s \in Slots}

(* t[k] = v: a free node takes a new key (luaH_newkey), an old one is kept.*)
SetTable(s) ==
    /\ Holds(s, "table")
    /\ \E k \in IF scenario.keys THEN Values ELSE {Nil}, v \in Values :
         LET t == Stack(s)
             keyed == IF k = g.key[t] THEN g
                      ELSE BarrierBack([g EXCEPT !.key[t] = k], t, k)
         IN /\ k = g.key[t] \/ (g.val[t] = Nil /\ v # Nil)
            /\ g.val[t] # v
            /\ Become(BarrierBack([keyed EXCEPT !.val[t] = v], t, v))

(* lua_setuservalue                                                        *)
SetUserValue(s, r) ==
    /\ Holds(s, "udata") /\ (Holds(r, "table") \/ Stack(r) = Nil)
    /\ Become(BarrierForward([g EXCEPT !.val[Stack(s)] = Stack(r)], Stack(s), Stack(r)))

(* lua_setmetatable with a metatable that has a __gc (and the same __mode).*)
SetFinalizer(s) ==
    /\ scenario.finalizers /\ (Holds(s, "udata") \/ Holds(s, "table"))
    /\ Become(CheckFinalizer(g, Stack(s)))

(* GCTM: the object becomes the argument of its finalizer.                 *)
CallFinalizer(s) ==
    /\ g.tobefnz # <<>> /\ Stack(s) = Nil
    /\ Become(Put(UdataToFinalize(g), Main, s, Head(g.tobefnz)))

(* Threads run by the main one.                                            *)
Running == {Main} \cup {Stack(s) : s \in {x \in Slots : Holds(x, "thread")}}

(* lua_xmove pushes a value on the stack of another thread.                *)
MoveTo(t, s, d) ==
    /\ t # Main /\ Stack(s) # Nil /\ ~Holds(s, "proto")
    /\ \A x \in 1..d : (g.stk[t][x] = Nil) <=> x = d
    /\ Become(Put(g, t, d, Stack(s)))

(* OP_CLOSURE: the prototype's cached closure, if it has the upvalue the   *)
(* new one needs, or a new closure over the local at slot s.               *)
Closure(t, r, s, d) ==
    /\ Holds(r, "proto") /\ s # d
    /\ LET p == Stack(r)
           cached == g.val[p]
           c == NextId(g, "closure")
           made == Put(NewObj(g, "closure"), t, d, c)
           found == OpenAt(made, t, s)
           open == IF found = {}
                   THEN [NewObj(made, "upval") EXCEPT !.allgc = made.allgc,
                                                      !.at[NextId(made, "upval")] = <<t, s>>]
                   ELSE LET u == CHOOSE x \in found : TRUE
                        IN IF IsDead(made, u) THEN [made EXCEPT !.color[u] = made.white]
                           ELSE made
           u == CHOOSE x \in OpenAt(open, t, s) : TRUE
           filled == [open EXCEPT !.key[c] = p, !.val[c] = u]
       IN IF cached # Nil /\ g.at[g.val[cached]] = <<t, s>>
          THEN Become(Put(g, t, d, cached))
          ELSE /\ Room("closure") /\ (OpenAt(g, t, s) = {} => Room("upval"))
               /\ OpenAt(g, t, d) = {}
               /\ Become([BarrierProto(filled, p, c) EXCEPT !.val[p] = c])

(* OP_SETUPVAL through a closure                                           *)
SetUpval(s, r) ==
    /\ Holds(s, "closure")
    /\ LET u == g.val[Stack(s)]
           v == Stack(r)
           open == g.at[u] # Nil
       IN /\ UpvalValue(g, u) # v
          /\ Become(BarrierForward(IF open THEN Put(g, g.at[u][1], g.at[u][2], v)
                                   ELSE [g EXCEPT !.val[u] = v], u, v))

(* A block or function of thread t ends: its locals from s up are gone.    *)
Close(t, s) ==
    /\ \E r \in Slots : r >= s /\ g.stk[t][r] # Nil
    /\ LET h == CloseFrom(g, t, s)
       IN Become([h EXCEPT !.stk[t] = [r \in {x \in Slots : x >= s} |-> Nil] @@ @])

Mutator ==
    \/ \E s \in Slots : \/ New(s) \/ Intern(s) \/ Pop(s) \/ SetTable(s)
                        \/ SetFinalizer(s) \/ CallFinalizer(s)
    \/ \E s, r \in Slots : Read(s, r) \/ SetUserValue(s, r) \/ SetUpval(s, r)
    \/ \E t \in Running, s \in Slots : Close(t, s)
    \/ \E t \in Running, s, d \in Slots : MoveTo(t, s, d)
    \/ \E t \in Running, r, s, d \in Slots : Closure(t, r, s, d)

(* One step of the incremental collector.                                  *)
Step ==
    /\ ~g.gen
    /\ CASE g.state = "pause"     -> Become(RestartCollection(g))
         [] g.state = "propagate" ->
              \E o \in g.gray \cup {Main} : (g.gray # {} => o \in g.gray)
                                            /\ Become(MarkPhase(g, o))
         [] OTHER                 -> Become(SweepPhase(g))

(* A step of the generational collector; a major one is a full cycle.      *)
Minor == g.gen /\ Become(MinorCollection(g))

(* luaC_fullgc; its finalizers are steps of their own, before and after.   *)
Full == Become(FullCycle(g))

SetMode == scenario.generations /\ Become(ChangeMode(g, ~g.gen))

Next == Mutator \/ Step \/ Minor \/ Full \/ SetMode

Spec == Init /\ [][Next]_vars

-----------------------------------------------------------------------------
(***************************************************************************)
(* Properties                                                              *)
(***************************************************************************)
Range(seq) == {seq[i] : i \in DOMAIN seq}

(* What an object points to; an entry without a value points to nothing.   *)
Pointers(h, o) ==
    (CASE h.kind[o] = "table" -> {IF h.val[o] # Nil THEN h.key[o] ELSE Nil, h.val[o]}
       [] h.kind[o] = "thread" -> Range(h.stk[o])
       [] h.kind[o] = "upval" -> {UpvalValue(h, o)}
       [] OTHER -> {h.key[o], h.val[o]}) \ {Nil}

RECURSIVE Reach(_, _)
Reach(h, S) ==
    LET more == UNION {Pointers(h, o) : o \in S} \ S
    IN IF more = {} THEN S ELSE Reach(h, S \cup more)
Accessible(h) == Reach(h, {Main} \cup Range(h.tobefnz))

(* What must be kept: a weak field does not count, unless it is a string,  *)
(* and the value of an ephemeron counts when its key is kept.              *)
RECURSIVE Kept(_, _)
Kept(h, S) ==
    LET field(o, v, weak) == IF v # Nil /\ weak /\ h.kind[v] # "string" THEN {} ELSE {v}
        held(o) ==
            IF h.kind[o] = "table" /\ h.val[o] # Nil
            THEN field(o, h.key[o], h.mode[o] \in {"k", "kv"})
                 \cup field(o, h.val[o], \/ h.mode[o] \in {"v", "kv"}
                                         \/ h.mode[o] = "k" /\ h.key[o] \notin S \cup {Nil})
            ELSE IF h.kind[o] = "proto" THEN {} ELSE Pointers(h, o)
        more == UNION {held(o) : o \in S} \ (S \cup {Nil})
    IN IF more = {} THEN S ELSE Kept(h, S \cup more)
Strong(h) == Kept(h, {Main} \cup Range(h.tobefnz))

(* Every list holds live objects once, every object is in its list.        *)
TypeOK ==
    /\ g.state \in {"pause", "propagate", "sweepstring", "sweepudata", "sweep"}
    /\ g.gen => g.state = "propagate"
    /\ \A list \in Lists : \A i, j \in DOMAIN g[list] : g[list][i] = g[list][j] => i = j
    /\ g.separated = Range(g.finobj) \cup Range(g.tobefnz)
    /\ Range(g.allgc) \cup Range(g.finobj) \cup Range(g.tobefnz) \cup Range(g.strt)
         = {o \in Objs : g.kind[o] # "free" /\ g.at[o] = Nil}
    /\ g.sweepgc \in {Nil, Main} \cup Range(g.allgc)
    /\ g.sweepfin \in {Nil, Main} \cup Range(g.finobj)
    /\ g.state \notin {"sweepstring", "sweepudata", "sweep"} => g.sweepgc = Nil

(* The sweep of a minor collection stops at the first old object, "as all  *)
(* objects after that one will be old too" (sweeplist).                    *)
OldIsSuffix ==
    g.gen => \A list \in {"allgc", "finobj", "strt"} : \A i, j \in DOMAIN g[list] :
                 i < j /\ g.old[g[list][i]] => g.old[g[list][j]]

(* The lists are sound, and what the program can still read, weak entries, *)
(* cached closures and open upvalues included, has not been freed.         *)
NoDangling == TypeOK /\ OldIsSuffix /\ \A o \in Accessible(g) : g.kind[o] # "free"

(* While marking, and all the time in the generational mode, "a black      *)
(* object can never point to a white one" and "any gray object must be in  *)
(* a gray list so that it can be visited again" (lgc.h), and in one only:  *)
(* the lists share the gclist field.  No object is linked twice at any     *)
(* time, but by markbeingfnz (stuck).                                      *)
TriColor ==
    g.twice = {} /\ (KeepInvariant(g) =>
        \A o \in Cells : g.kind[o] # "free" =>
            /\ g.color[o] = "black" => \A v \in Pointers(g, o) : ~IsWhite(g, v)
            /\ Queued(g, o) /\ g.color[o] = "gray" =>
                 Cardinality({list \in Grays : o \in g[list]}) = 1)

(* collectgarbage() collects: from any state of the collector, a full cycle*)
(* leaves only what is reachable other than through weak references.  (It  *)
(* ends where a cycle begins, and the conjunct before Full spares TLC the  *)
(* cycle at the steps that end elsewhere.)                                 *)
FullCollects ==
    [][~g'.stuck /\ g'.state \in {"pause", "propagate"} /\ g'.stk[Main] = g.stk[Main] /\ Full =>
          \A o \in Objs : g'.kind[o] # "free" => o \in Strong(g')]_vars

(* An object marked for finalization is not freed, nor does it leave the   *)
(* lists of such objects, before its finalizer is called.                  *)
FinalizedFirst ==
    [][\A o \in g.separated : g'.kind[o] = g.kind[o] /\ (o \in g'.separated \cup g'.called)]_vars

AtomicStep == g.state = "propagate" /\ g'.state = "sweepstring"

Loses(t) == g.kind[t] = "table" /\ g.val[t] # Nil /\ g'.val[t] = Nil

(* The end of marking removes an entry of a weak table only if its weak    *)
(* part was not reachable: strings never are weak.                         *)
WeakEntriesKept ==
    [][AtomicStep => \A t \in Strong(g) : Loses(t) /\ g.mode[t] # "k" =>
          g.val[t] \notin Strong(g) \/ (g.mode[t] = "kv" /\ g.key[t] \notin Strong(g))]_vars

(* The same of ephemeron tables: with a reachable key, the value stays.    *)
EphemeronKept ==
    [][AtomicStep => \A t \in Strong(g) : Loses(t) /\ g.mode[t] = "k" =>
          g.key[t] \notin Strong(g)]_vars

(* Objects about to be finalized are no longer values of the weak tables   *)
(* the program can reach ("keep them in keys, but not in values").         *)
ResurrectedLeaveValues ==
    [][AtomicStep => \A t \in Strong(g) : g'.mode[t] \in {"v", "kv"} =>
          g'.val[t] \notin Range(g'.tobefnz) \ Range(g.tobefnz)]_vars
=============================================================================
