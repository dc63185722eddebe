------------------------------ MODULE MapTree ------------------------------
(***************************************************************************)
(* ReadMap(reader, true) of common/map.go: the object inheritance that     *)
(* processMapTree, inheritObj, copyValue and newGetBaseObjFunc apply to a *)
(* decoded JSON document.  Go maps are references, and the functions      *)
(* mutate the objects in place, so the document is a heap: object ids     *)
(* (1 is the root) mapped to functions from keys to values.  A value is   *)
(*     [t |-> "obj", id |-> i]    a map[string]interface{}                 *)
(*     [t |-> "arr", items |-> s] a []interface{}                          *)
(*     [t |-> "str", s |-> x]     a string (any other scalar alike)        *)
(*     [t |-> "nil"]              a nil interface                          *)
(* A getBaseObjFunc is the chain of objects it searches, innermost first. *)
(* Results are records [ok, err, h, v]: err "panic" is a Go panic,        *)
(* "overflow" a recursion deeper than the fuel (Go's fatal stack         *)
(* overflow: the inputs checked recurse that deep only on a cycle).       *)
(* Go ranges over a map in a random order.  processMapTree's order of the *)
(* nested objects decides which getBaseObjFunc resolves an object's base, *)
(* so ProcessMapTree returns the set of outcomes of every order.          *)
(* inheritObj's copy loop runs in the fixed order KeyOrder: every copy it *)
(* makes resolves bases through the same chain, so its order does not     *)
(* change the result.                                                     *)
(***************************************************************************)
EXTENDS Integers, Sequences, SequencesExt, TLC

CONSTANTS
    KeyOrder,   \* every key the documents use, in inheritObj's range order
    Fuel        \* recursion depth standing for the goroutine stack

BaseKey == "__base_obj_name__"   \* cBaseObjNameKeyName
NameKey == "__name__"            \* cObjNameKeyName

Nil == [t |-> "nil"]
Obj(i) == [t |-> "obj", id |-> i]
Str(x) == [t |-> "str", s |-> x]
Arr(s) == [t |-> "arr", items |-> s]

Ok(h, v) == [ok |-> TRUE, err |-> "none", h |-> h, v |-> v]
\* A failed call returns no value: v is 0, of the type ReadMap's results carry.
Fail(h, why) == [ok |-> FALSE, err |-> why, h |-> h, v |-> 0]

SetKey(h, i, k, v) == [h EXCEPT ![i] = (k :> v) @@ @]
\* Mutant: inheritObj never deletes the base key.
DelKeyMissing(h, i, k) == h

DelKey(h, i, k) == [h EXCEPT ![i] = [x \in DOMAIN @ \ {k} |-> @[x]]]

\* The function newGetBaseObjFunc builds, applied to key: the first
\* object of the chain holding key; its value must be an object (the
\* type assertion panics otherwise); 0 is the nil map when none holds it.
RECURSIVE GetBaseObj(_, _, _)
GetBaseObj(h, chain, key) ==
    IF chain = <<>> THEN Ok(h, 0)
    ELSE LET m == h[Head(chain)] IN
         IF key \notin DOMAIN m THEN GetBaseObj(h, Tail(chain), key)
         ELSE IF m[key].t = "obj" THEN Ok(h, m[key].id)
         ELSE Fail(h, "panic")

RECURSIVE InheritObj(_, _, _, _, _), CopyKeysOverwrite(_, _, _, _, _, _),
          CopyKeys(_, _, _, _, _, _), CopyValue(_, _, _, _), CopyItems(_, _, _, _, _)

\* inheritObj(baseObj, m, f): first resolve baseObj's own base through f
\* (a nil base resolves to nothing; at the root f is the nil func of
\* processMapTree(m, nil), whose call panics), then copy every key of baseObj that
\* m lacks, then delete m's base key.  b = 0 is a nil baseObj, which has
\* no keys.
InheritObj(h, b, m, f, d) ==
    IF d = 0 THEN Fail(h, "overflow") ELSE
    LET r1 == IF b = 0 \/ BaseKey \notin DOMAIN h[b] THEN Ok(h, m)
              ELSE IF h[b][BaseKey].t # "str" THEN Fail(h, "panic")
              ELSE IF h[b][BaseKey].s = "" THEN Ok(h, m)
              ELSE IF f = <<>> THEN Fail(h, "panic")
              ELSE LET g == GetBaseObj(h, f, h[b][BaseKey].s)
                   IN  IF ~g.ok THEN g
                       ELSE LET r == InheritObj(g.h, g.v, b, f, d - 1)
                            IN  IF r.ok THEN Ok(r.h, m) ELSE r
        r2 == IF ~r1.ok \/ b = 0 THEN r1
              ELSE CopyKeys(r1.h, b, m, SelectSeq(KeyOrder, LAMBDA k : k \in DOMAIN r1.h[b]), f, d)
    IN  IF r2.ok THEN Ok(DelKey(r2.h, m, BaseKey), m) ELSE r2

\* Mutant: the base's value replaces m's own.
CopyKeysOverwrite(h, b, m, ks, f, d) ==
    IF ks = <<>> THEN Ok(h, m) ELSE
    LET k == Head(ks)
        r == IF k \in DOMAIN h[b] /\ k # BaseKey
             THEN LET c == CopyValue(h, h[b][k], f, d)
                  IN  IF c.ok THEN Ok(SetKey(c.h, m, k, c.v), m) ELSE c
             ELSE Ok(h, m)
    IN  IF r.ok THEN CopyKeys(r.h, b, m, Tail(ks), f, d) ELSE r

\* for k, v := range baseObj { if _, ok := m[k]; !ok { m[k] = copyValue(v, f) } }
\* A key deleted before the range reaches it is not visited.
CopyKeys(h, b, m, ks, f, d) ==
    IF ks = <<>> THEN Ok(h, m) ELSE
    LET k == Head(ks)
        r == IF k \in DOMAIN h[b] /\ k \notin DOMAIN h[m]
             THEN LET c == CopyValue(h, h[b][k], f, d)
                  IN  IF c.ok THEN Ok(SetKey(c.h, m, k, c.v), m) ELSE c
             ELSE Ok(h, m)
    IN  IF r.ok THEN CopyKeys(r.h, b, m, Tail(ks), f, d) ELSE r

\* copyValue: an object is inherited into a fresh map; a slice is copied
\* item by item after make([]interface{}, len(av)), appending to its
\* len(av) nil items; anything else is shared.
CopyValue(h, v, f, d) ==
    CASE v.t = "obj" ->
            LET r == InheritObj(Append(h, <<>>), v.id, Len(h) + 1, f, d - 1)
            IN  IF r.ok THEN Ok(r.h, Obj(r.v)) ELSE r
      [] v.t = "arr" -> CopyItems(h, v.items, [i \in 1..Len(v.items) |-> Nil], f, d)
      [] OTHER -> Ok(h, v)

CopyItems(h, items, nv, f, d) ==
    IF items = <<>> THEN Ok(h, Arr(nv)) ELSE
    LET c == CopyValue(h, Head(items), f, d)
    IN  IF c.ok THEN CopyItems(c.h, Tail(items), Append(nv, c.v), f, d) ELSE c

\* The nested objects of m (keys other than __name__).
ChildKeys(h, m) == {k \in DOMAIN h[m] : k # NameKey /\ h[m][k].t = "obj"}

\* processMapTree's first loop: o[__name__] = k for every nested object o.
MarkNames(h, m) ==
    FoldSet(LAMBDA k, acc : SetKey(acc, h[m][k].id, NameKey, Str(k)), h, ChildKeys(h, m))

\* processMapTree's second loop: m's own base, looked up in m first and
\* then through f; a base nobody holds panics.
InheritOwnBase(h, m, f, d) ==
    IF BaseKey \notin DOMAIN h[m] THEN Ok(h, m)
    ELSE IF h[m][BaseKey].t # "str" THEN Fail(h, "panic")
    ELSE LET g == GetBaseObj(h, <<m>> \o f, h[m][BaseKey].s)
         IN  CASE ~g.ok -> g
               [] g.v = 0 -> Fail(h, "panic")
               [] OTHER -> InheritObj(g.h, g.v, m, f, d)

RECURSIVE ProcessMapTree(_, _, _, _), ProcessEach(_, _, _, _)

\* processMapTree(m, f): the outcomes over every order of nextLevels.
ProcessMapTree(h, m, f, d) ==
    IF d = 0 THEN {Fail(h, "overflow")} ELSE
    LET h1 == MarkNames(h, m)
        r == InheritOwnBase(h1, m, f, d)
    IN  IF ~r.ok THEN {r}
        ELSE UNION {ProcessEach(r.h, order, <<m>> \o f, d - 1)
                    : order \in SetToSeqs({h[m][k].id : k \in ChildKeys(h, m)})}

\* for _, no := range nextLevels { processMapTree(no, getBaseObj) }
ProcessEach(h, order, f, d) ==
    IF order = <<>> THEN {Ok(h, 1)} ELSE
    UNION {IF r.ok THEN ProcessEach(r.h, Tail(order), f, d) ELSE {r}
           : r \in ProcessMapTree(h, Head(order), f, d)}

\* ReadMap(reader, true) on the decoded document h.
ReadMap(h) == ProcessMapTree(h, 1, <<>>, Fuel)
=============================================================================
