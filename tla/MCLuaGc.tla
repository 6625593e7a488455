------------------------------ MODULE MCLuaGc ------------------------------
EXTENDS LuaGc
MCSlots == 1..2
Program(pool, modes, keys, finalizers, generations) ==
    [pool |-> [o \in Objs |-> IF o <= Len(pool) THEN pool[o] ELSE "none"], modes |-> modes,
     keys |-> keys, finalizers |-> finalizers, generations |-> generations]

MCScenarios ==
    { \* strong tables and finalized userdata, also in the generational mode
      Program(<<"table", "table">>, {""}, FALSE, FALSE, TRUE),
      Program(<<"table", "udata">>, {""}, FALSE, TRUE, TRUE),
      Program(<<"udata", "udata">>, {""}, FALSE, TRUE, TRUE),
      \* ephemeron tables, weak values with finalizers, strings in weak tables
      Program(<<"table", "udata">>, {"k"}, TRUE, TRUE, FALSE),
      Program(<<"table", "udata">>, {"kv"}, TRUE, FALSE, FALSE),
      Program(<<"table", "udata">>, {"v"}, FALSE, TRUE, TRUE),
      Program(<<"table", "string", "string">>, {"v"}, FALSE, FALSE, FALSE),
      \* closures, the prototype's cache, upvalues, of the main thread and another
      Program(<<"proto", "closure", "closure", "upval">>, {""}, FALSE, FALSE, TRUE),
      Program(<<"proto", "closure", "upval", "thread">>, {""}, FALSE, FALSE, FALSE) }

MCEphemerons == {Program(<<"table", "udata">>, {"k"}, TRUE, FALSE, FALSE)}

(* States that differ in the name of the current white, in the order of a  *)
(* stack no upvalue points into, or in the gray lists when they have no    *)
(* meaning, behave alike.                                                  *)
View ==
    <<scenario,
      [g EXCEPT
        !.white = "",
        !.color = [o \in Cells |-> IF @[o] \in Whites THEN @[o] = g.white ELSE @[o]],
        !.gray = IF KeepInvariant(g) THEN @ ELSE {},
        !.grayagain = IF KeepInvariant(g) THEN @ ELSE {},
        !.weak = IF KeepInvariant(g) THEN @ ELSE {},
        !.ephemeron = IF KeepInvariant(g) THEN @ ELSE {},
        !.allweak = IF KeepInvariant(g) THEN @ ELSE {},
        !.stk[Main] = IF \E u \in Objs : g.at[u] # Nil THEN @ ELSE Range(@)]>>
=============================================================================
