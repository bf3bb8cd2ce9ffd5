------------------------------ MODULE MCQuery ------------------------------
(* An instance of Query for TLC: three ids, documents with values of the   *)
(* types SQL and JSON compare differently, and a filter per kind of test.  *)
EXTENDS Query

null == [type |-> "null", n |-> 0]
int(n) == [type |-> "integer", n |-> n]
real(n) == [type |-> "real", n |-> n]
true == [type |-> "bool", n |-> 1]
text(n) == [type |-> "text", n |-> n]

MCFields == {"a", "b"}

Doc(a, b) == [f \in MCFields |-> IF f = "a" THEN a ELSE b]

MCDocuments ==
    {Doc(int(1), null), Doc(real(1), text(1)), Doc(true, int(2)),
     Doc(text(1), Missing), Doc(Missing, int(1))}

On(f, o, v) == [field |-> f, op |-> o, arg |-> v]
All(tests) == [all |-> tests, any |-> {{}}]

MCFilters ==
    {All({}),
     All({On("a", "$eq", int(1))}),
     All({On("a", "$in", {int(1), text(1), null})}),
     All({On("a", "$in", {true, text(1)}), On("b", "$eq", int(2))}),
     All({On("b", "$eq", null)}),
     All({On("a", "$ne", int(1))}),
     All({On("a", "$gt", int(0)), On("b", "$ne", null)}),
     [all |-> {On("a", "$lte", text(1))},
      any |-> {{On("b", "$eq", int(2))}, {On("b", "$lte", int(1)), On("a", "$gt", true)}, {On("b", "$eq", null)}}],
     [all |-> {}, any |-> {}]}

MCSorts ==
    {[by |-> "id", desc |-> FALSE], [by |-> "id", desc |-> TRUE],
     [by |-> "a", desc |-> FALSE], [by |-> "b", desc |-> TRUE]}

\* Nothing is claimed of paging by offset while others write.
Claimed == useCursor \/ quiet

MCLimits == {Unset, 0, 1}
=============================================================================
