-------------------------------- MODULE Filter --------------------------------
(***************************************************************************)
(* The filter engine: a CEL filter is compiled to a condition tree, the    *)
(* tree is rendered as an SQL fragment with placeholder arguments for one  *)
(* dialect, and ListMemos appends the fragments of its filters to its      *)
(* WHERE clause, before conditions of its own.  Filters are the syntax     *)
(* trees cel-go has type-checked; a string is a sequence of characters; a  *)
(* number is a number of seconds.                                          *)
(*                                                                         *)
(* SQL is kept as a tree whose leaves name the arguments the renderer made *)
(* for them.  Which argument a placeholder gets is the driver's matter: $n *)
(* gets the n-th, a bare ? the one its place in the final text gives it.   *)
(* Evaluation on a row is the database's: three-valued, with LIKE patterns *)
(* taken apart by their escape character.  A payload is protojson, which   *)
(* leaves a false flag out: the flag is TRUE or Null.                      *)
(***************************************************************************)
EXTENDS Integers, Sequences, SequencesExt

CONSTANTS First,       \* the filters a request may start with
          More,        \* the filters it may add (a view, a Space, ...)
          VisibilityLists,  \* the visibilities ListMemos may be limited to
          Row,         \* memos in the database
          Now,         \* the evaluation time, frozen by Compile
          MaxFilters,  \* bound on the filters of one request, for TLC
          Null         \* SQL's NULL

VARIABLES dialect,  \* the driver's SQL dialect
          filters,  \* the filters of the request compiled so far
          program,  \* the condition tree being rendered
          where,    \* the SQL fragments
          args,     \* their arguments
          visibilities,  \* the list the query is limited to, <<>> for none
          stage     \* "ready", "compiled", "rejected" or "queried"

filterVars == <<dialect, filters, program, where, args, visibilities, stage>>

Dialect == {"sqlite", "mysql", "postgres"}
Err == [k |-> "error"]

-----------------------------------------------------------------------------
(* The schema.                                                             *)

Kind(f) ==
  CASE f \in {"content", "created_ts", "updated_ts", "visibility", "space"} -> "scalar"
    [] f = "pinned" -> "bool_column"
    [] f \in {"has_task_list", "has_link"} -> "json_bool"
    [] f = "has_location" -> "json_exists"
    [] f = "tags" -> "json_list"
    [] f = "tag" -> "virtual_alias"

\* AllowedComparisonOps, of the field or of the one it is an alias for.
Allowed(f, op) ==
  CASE f = "space" -> op = "="
    [] f \in {"visibility", "pinned", "has_task_list", "has_link", "has_location"} -> op \in {"=", "!="}
    [] OTHER -> TRUE

-----------------------------------------------------------------------------
(* Compiling: CEL to a condition tree.                                     *)

Compare(op, x, y) ==
  CASE op = "=" -> x = y [] op = "!=" -> x # y
    [] op = "<" -> x < y [] op = "<=" -> x <= y [] op = ">" -> x > y [] op = ">=" -> x >= y

\* Strings are ordered by their bytes.
Ascii == <<"!", "%", "A", "P", "Q", "\\", "_", "a", "s", "t">>
Byte(c) == CHOOSE i \in DOMAIN Ascii : Ascii[i] = c
Precedes(x, y) ==
  \/ IsStrictPrefix(x, y)
  \/ \E i \in DOMAIN x \cap DOMAIN y :
        SubSeq(x, 1, i - 1) = SubSeq(y, 1, i - 1) /\ Byte(x[i]) < Byte(y[i])
CompareStrings(op, x, y) ==
  CASE op = "=" -> x = y [] op = "!=" -> x # y
    [] op = "<" -> Precedes(x, y) [] op = "<=" -> ~ Precedes(y, x)
    [] op = ">" -> Precedes(y, x) [] op = ">=" -> ~ Precedes(x, y)

MirrorOperator(op) ==
  CASE op = "<" -> ">" [] op = "<=" -> ">=" [] op = ">" -> "<" [] op = ">=" -> "<=" [] OTHER -> op

\* A date part of a time, counted from zero, and where CEL starts to count.
DatePart(t) == t % 3
CelBase(accessor) == IF accessor = "getDate" THEN 1 ELSE 0

\* evaluateNumeric: integer division rounds toward zero as in Go.
RECURSIVE EvaluateNumeric(_)
EvaluateNumeric(v) ==
  CASE v.k = "num" -> v
    [] v.k = "now" -> [k |-> "num", n |-> Now]
    [] v.k = "arith" ->
         LET l == EvaluateNumeric(v.l) r == EvaluateNumeric(v.r)
         IN  IF l = Err \/ r = Err \/ (v.op = "/" /\ r.n = 0) THEN Err
             ELSE [k |-> "num", n |-> CASE v.op = "+" -> l.n + r.n [] v.op = "-" -> l.n - r.n
                                        [] v.op = "/" -> IF l.n >= 0 THEN l.n \div r.n ELSE -((-l.n) \div r.n)]

\* buildValueExpr: a field, a literal, size(field) or a date part.
BuildValue(v) ==
  CASE v.k \in {"num", "now", "arith"} -> EvaluateNumeric(v)
    [] v.k = "accessor" /\ v.of = "now" -> [k |-> "num", n |-> DatePart(Now) + CelBase(v.name)]
    [] OTHER -> v

Literal(v) == v.k \in {"num", "str", "bool", "null"}

CompareLiterals(op, l, r) ==
  CASE l.k = "num" /\ r.k = "num" -> [k |-> "const", b |-> Compare(op, l.n, r.n)]
    [] l.k = "str" /\ r.k = "str" -> [k |-> "const", b |-> CompareStrings(op, l.s, r.s)]
    [] l.k = "bool" /\ r.k = "bool" /\ op \in {"=", "!="} -> [k |-> "const", b |-> Compare(op, l.b, r.b)]
    [] OTHER -> Err

\* buildComparisonCondition: two literals fold, a literal moves to the right.
BuildComparison(e) ==
  LET l == BuildValue(e.l)
      r == BuildValue(e.r)
      swap == Literal(l)
      field == IF swap THEN r ELSE l
      value == IF swap THEN l ELSE r
      op == IF swap THEN MirrorOperator(e.op) ELSE e.op
  IN  CASE l = Err \/ r = Err -> Err
        [] Literal(l) /\ Literal(r) -> CompareLiterals(e.op, l, r)
        [] field.k = "field" /\ ~ Allowed(field.f, op) -> Err
        [] OTHER -> [k |-> "cmp", op |-> op, l |-> field, r |-> value]

Combine(op, cs) == FoldLeft(LAMBDA acc, c : [k |-> op, l |-> acc, r |-> c], Head(cs), Tail(cs))
HasTag(s) == [k |-> "elem", s |-> s]
SizeIs(n) == [k |-> "cmp", op |-> "=", l |-> [k |-> "size", f |-> "tags"], r |-> [k |-> "num", n |-> n]]

\* distinctStrings.
Distinct(vs) == FoldLeft(LAMBDA acc, v : IF Contains(acc, v) THEN acc ELSE Append(acc, v), <<>>, vs)

\* buildSetCondition: sets.contains, intersects and equivalent on tags.
BuildSet(e) ==
  LET members(vs) == [i \in DOMAIN vs |-> HasTag(vs[i])]
  IN  CASE e.op = "contains" ->
             IF e.vs = <<>> THEN [k |-> "const", b |-> TRUE] ELSE Combine("and", members(e.vs))
        [] e.op = "intersects" ->
             IF e.vs = <<>> THEN [k |-> "const", b |-> FALSE] ELSE Combine("or", members(e.vs))
        [] e.op = "equivalent" ->
             IF e.vs = <<>> THEN SizeIs(0)
             ELSE [k |-> "and", l |-> Combine("and", members(Distinct(e.vs))),
                                r |-> SizeIs(Len(Distinct(e.vs)))]

\* buildTextMatchCondition: SupportsContains.
BuildText(e) == IF e.f = "content" THEN e ELSE Err

\* buildCondition.  A comprehension over tags carries its predicate as text
\* to match; membership is equality of an element.
RECURSIVE Build(_)
Build(e) ==
  CASE e.k \in {"and", "or"} ->
         LET l == Build(e.l) r == Build(e.r)
         IN  IF l = Err \/ r = Err THEN Err ELSE [k |-> e.k, l |-> l, r |-> r]
    [] e.k = "not" -> IF Build(e.e) = Err THEN Err ELSE [k |-> "not", e |-> Build(e.e)]
    [] e.k = "cmp" -> BuildComparison(e)
    [] e.k = "sets" -> BuildSet(e)
    [] e.k = "text" -> BuildText(e)
    [] e.k \in {"const", "flag", "in", "elem", "each"} -> e

-----------------------------------------------------------------------------
(* Rendering: a condition tree to SQL, with n arguments before it.         *)

Sql(s, as) == [sql |-> s, trivial |-> FALSE, unsatisfiable |-> FALSE, args |-> as]
Trivial == [sql |-> [k |-> "true"], trivial |-> TRUE, unsatisfiable |-> FALSE, args |-> <<>>]
Unsatisfiable == [sql |-> [k |-> "false"], trivial |-> FALSE, unsatisfiable |-> TRUE, args |-> <<>>]
SqlNot(s) == [k |-> "not", e |-> s]

\* combineAnd and combineOr; the arguments of a side that is left out stay.
CombineAnd(l, r) ==
  LET result == CASE l.unsatisfiable \/ r.unsatisfiable -> Unsatisfiable
                  [] l.trivial -> r
                  [] r.trivial -> l
                  [] OTHER -> Sql([k |-> "and", l |-> l.sql, r |-> r.sql], <<>>)
  IN  [result EXCEPT !.args = l.args \o r.args]

\* (a plausible slip) a side that is always true is dropped as in combineAnd
CombineOrDropping(l, r) ==
  LET result == CASE l.trivial -> r
                  [] r.trivial -> l
                  [] l.unsatisfiable -> r
                  [] r.unsatisfiable -> l
                  [] OTHER -> Sql([k |-> "or", l |-> l.sql, r |-> r.sql], <<>>)
  IN  [result EXCEPT !.args = l.args \o r.args]

CombineOr(l, r) ==
  LET result == CASE l.trivial \/ r.trivial -> Trivial
                  [] l.unsatisfiable -> r
                  [] r.unsatisfiable -> l
                  [] OTHER -> Sql([k |-> "or", l |-> l.sql, r |-> r.sql], <<>>)
  IN  [result EXCEPT !.args = l.args \o r.args]

\* renderNotCondition.
Negate(c) ==
  LET result == CASE c.trivial -> Unsatisfiable
                  [] c.unsatisfiable -> Trivial
                  [] OTHER -> Sql(SqlNot(c.sql), <<>>)
  IN  [result EXCEPT !.args = c.args]

IsTrue(f) == [k |-> "istrue", f |-> f]
Exists(f) == SqlNot([k |-> "isnull", f |-> f])

\* renderFieldPredicate, jsonBoolPredicate and jsonExistsSQL: two-valued on
\* every dialect.
RenderFlag(f) == Sql(IF Kind(f) = "json_exists" THEN Exists(f) ELSE IsTrue(f), <<>>)

\* renderJSONBoolComparison.  SQLite's has_task_list, MySQL and PostgreSQL
\* compare the extracted value, which is Null when the key is missing.
RenderJSONBool(f, op, b, d, n) ==
  CASE d = "sqlite" /\ f # "has_task_list" -> Sql(IF b = (op = "=") THEN IsTrue(f) ELSE SqlNot(IsTrue(f)), <<>>)
    [] d = "postgres" -> Sql([k |-> "cmp", f |-> f, op |-> op, at |-> n + 1], <<b>>)
    [] OTHER -> Sql([k |-> "fixed", f |-> f, op |-> op, b |-> b], <<>>)

RenderJSONExists(f, op, b) == Sql(IF b = (op = "=") THEN Exists(f) ELSE SqlNot(Exists(f)), <<>>)

\* renderComparison on a field.
RenderFieldComparison(f, op, v, d, n) ==
  CASE ~ Literal(v) \/ Kind(f) \in {"json_list", "virtual_alias"} -> Sql(Err, <<>>)
    [] Kind(f) = "json_bool" -> RenderJSONBool(f, op, v.b, d, n)
    [] Kind(f) = "json_exists" -> RenderJSONExists(f, op, v.b)
    [] v.k = "null" ->
         Sql(CASE op = "=" -> [k |-> "isnull", f |-> f] [] op = "!=" -> Exists(f) [] OTHER -> Err, <<>>)
    [] OTHER -> Sql([k |-> "cmp", f |-> f, op |-> op, at |-> n + 1],
                    <<CASE v.k = "num" -> v.n [] v.k = "str" -> v.s [] v.k = "bool" -> v.b>>)

\* accessorSpecs: what each dialect's date function starts to count at, and
\* the offset subtracted from it.
SqlBase(accessor, d) == IF accessor = "getDayOfWeek" /\ d # "mysql" THEN 0 ELSE 1
AccessorOffset(accessor, d) ==
  CASE accessor = "getMonth" -> 1
    [] accessor = "getDate" -> 0
    [] accessor = "getDayOfWeek" -> IF d = "mysql" THEN 1 ELSE 0

RenderAccessorComparison(l, op, v, d, n) ==
  IF v.k # "num" THEN Sql(Err, <<>>)
  ELSE Sql([k |-> "date", f |-> l.of, base |-> SqlBase(l.name, d) - AccessorOffset(l.name, d),
            op |-> op, at |-> n + 1], <<v.n>>)

\* size() of the tags or of the content.
RenderFunctionComparison(l, op, v, n) ==
  IF v.k # "num" THEN Sql(Err, <<>>)
  ELSE Sql([k |-> "len", f |-> l.f, op |-> op, at |-> n + 1], <<v.n>>)

RenderComparison(c, d, n) ==
  CASE c.l.k = "field" -> RenderFieldComparison(c.l.f, c.op, c.r, d, n)
    [] c.l.k = "size" -> RenderFunctionComparison(c.l, c.op, c.r, n)
    [] c.l.k = "accessor" -> RenderAccessorComparison(c.l, c.op, c.r, d, n)

\* NewReplacer(...).Replace: esc before every metacharacter.
Escape(s, esc) == FlattenSeq([i \in DOMAIN s |-> IF s[i] \in {"%", "_", esc} THEN <<esc, s[i]>> ELSE <<s[i]>>])

\* likePattern and tagLikePattern.
LikePattern(mode, s, esc) ==
  CASE mode = "prefix" -> Escape(s, esc) \o <<"%">>
    [] mode = "suffix" -> <<"%">> \o Escape(s, esc)
    [] mode = "contains" -> <<"%">> \o Escape(s, esc) \o <<"%">>

\* tagElementPredicateSQL and tagElementTextMatch: string functions on
\* SQLite (the suffix binds its value twice), LIKE with ! elsewhere.
TagTest(mode, s, d, n) ==
  CASE mode = "equals" -> [test |-> [k |-> "equals", at |-> n + 1], args |-> <<s>>]
    [] mode # "equals" /\ s = <<>> -> [test |-> [k |-> "true"], args |-> <<>>]
    [] mode # "equals" /\ s # <<>> /\ d = "sqlite" ->
         [test |-> [k |-> mode, at |-> n + 1], args |-> IF mode = "suffix" THEN <<s, s>> ELSE <<s>>]
    [] OTHER -> [test |-> [k |-> "like", at |-> n + 1], args |-> <<LikePattern(mode, s, "!")>>]

\* renderTagComprehension.
RenderTags(kind, mode, s, d, n) ==
  LET t == TagTest(mode, s, d, n)
  IN  Sql([k |-> "tags", kind |-> kind, test |-> t.test], t.args)

\* renderTagInList: every value a membership test, joined with OR.
RenderTagIn(vs, d, n) ==
  LET test(i) == RenderTags("exists", "equals", vs[i], d, n + i - 1).sql
  IN  IF vs = <<>> THEN Sql([k |-> "false"], <<>>)
      ELSE Sql(Combine("or", [i \in DOMAIN vs |-> test(i)]), vs)

\* renderInCondition.
RenderIn(f, vs, d, n) ==
  IF f = "tag" THEN RenderTagIn(vs, d, n)
  ELSE IF Kind(f) # "scalar" THEN Sql(Err, <<>>)
  ELSE Sql([k |-> "in", f |-> f, from |-> n + 1, count |-> Len(vs)], vs)

\* renderTextMatch, with the backslash as escape.
RenderText(c, n) == Sql([k |-> "like", f |-> c.f, at |-> n + 1], <<LikePattern(c.mode, c.s, "\\")>>)

\* renderCondition.
RECURSIVE RenderCondition(_, _, _)
RenderCondition(c, d, n) ==
  CASE c.k = "const" -> IF c.b THEN Trivial ELSE Unsatisfiable
    [] c.k \in {"and", "or"} ->
         LET l == RenderCondition(c.l, d, n)
             r == RenderCondition(c.r, d, n + Len(l.args))
         IN  IF l.sql = Err \/ r.sql = Err THEN Sql(Err, <<>>)
             ELSE IF c.k = "and" THEN CombineAnd(l, r) ELSE CombineOr(l, r)
    [] c.k = "not" ->
         LET e == RenderCondition(c.e, d, n) IN IF e.sql = Err THEN e ELSE Negate(e)
    [] c.k = "flag" -> RenderFlag(c.f)
    [] c.k = "cmp" -> RenderComparison(c, d, n)
    [] c.k = "in" -> RenderIn(c.f, c.vs, d, n)
    [] c.k = "elem" -> RenderTags("exists", "equals", c.s, d, n)
    [] c.k = "text" -> RenderText(c, n)
    [] c.k = "each" -> RenderTags(c.kind, c.mode, c.s, d, n)

-----------------------------------------------------------------------------
(* The database: three-valued evaluation of SQL on a row.                  *)

And(x, y) == CASE x = "F" \/ y = "F" -> "F" [] x = "T" /\ y = "T" -> "T" [] OTHER -> "N"
Not(x) == CASE x = "T" -> "F" [] x = "F" -> "T" [] OTHER -> "N"
Or(x, y) == Not(And(Not(x), Not(y)))
Truth(b) == IF b THEN "T" ELSE "F"

Lower(s) == [i \in DOMAIN s |-> IF s[i] = "A" THEN "a" ELSE s[i]]

\* x LIKE pattern ESCAPE esc.
RECURSIVE Like(_, _, _)
Like(s, p, esc) ==
  CASE p = <<>> -> s = <<>>
    [] p # <<>> /\ p[1] = esc /\ Len(p) > 1 ->
         s # <<>> /\ s[1] = p[2] /\ Like(Tail(s), SubSeq(p, 3, Len(p)), esc)
    [] p # <<>> /\ p[1] = "%" -> \E i \in 0..Len(s) : Like(SubSeq(s, i + 1, Len(s)), Tail(p), esc)
    [] OTHER -> s # <<>> /\ (p[1] = "_" \/ p[1] = s[1]) /\ Like(Tail(s), Tail(p), esc)

Occurs(s, t) == \E i \in 0..(Len(t) - Len(s)) : SubSeq(t, i + 1, i + Len(s)) = s

Passes(test, t, as) ==
  CASE test.k = "true" -> TRUE
    [] test.k = "equals" -> t = as[test.at]
    [] test.k = "prefix" -> Len(as[test.at]) <= Len(t) /\ SubSeq(t, 1, Len(as[test.at])) = as[test.at]
    [] test.k = "suffix" ->
         LET w == Len(as[test.at])
         IN  (IF w > Len(t) THEN t ELSE SubSeq(t, Len(t) - w + 1, Len(t))) = as[test.at + 1]
    [] test.k = "contains" -> Occurs(as[test.at], t)
    [] test.k = "like" -> Like(t, as[test.at], "!")

NumberPassing(test, row, as) == Len(SelectSeq(row.tags, LAMBDA t : Passes(test, t, as)))

RECURSIVE Eval(_, _, _)
Eval(s, row, as) ==
  CASE s.k = "false" -> "F" [] s.k = "true" -> "T"
    [] s.k = "and" -> And(Eval(s.l, row, as), Eval(s.r, row, as))
    [] s.k = "or" -> Or(Eval(s.l, row, as), Eval(s.r, row, as))
    [] s.k = "not" -> Not(Eval(s.e, row, as))
    [] s.k = "isnull" -> Truth(row[s.f] = Null)
    [] s.k = "istrue" -> Truth(row[s.f] # Null /\ row[s.f] = TRUE)
    [] s.k = "fixed" -> IF row[s.f] = Null THEN "N" ELSE Truth(Compare(s.op, row[s.f], s.b))
    [] s.k = "cmp" -> IF row[s.f] = Null THEN "N" ELSE Truth(Compare(s.op, row[s.f], as[s.at]))
    [] s.k = "in" -> IF row[s.f] = Null THEN "N" ELSE Truth(\E i \in 0..(s.count - 1) : as[s.from + i] = row[s.f])
    [] s.k = "len" -> Truth(Compare(s.op, Len(row[s.f]), as[s.at]))
    [] s.k = "date" -> Truth(Compare(s.op, DatePart(row[s.f]) + s.base, as[s.at]))
    [] s.k = "like" -> Truth(Like(Lower(row[s.f]), Lower(as[s.at]), "\\"))
    [] s.k = "tags" ->
         LET m == NumberPassing(s.test, row, as)
         IN  Truth(CASE s.kind = "exists" -> m > 0
                     [] s.kind = "all" -> Len(row.tags) > 0 /\ m = Len(row.tags)
                     [] s.kind = "exists_one" -> m = 1)

\* The arguments the renderer made for the placeholders in a fragment.
RECURSIVE Positions(_)
Positions(s) ==
  CASE s.k \in {"and", "or"} -> Positions(s.l) \cup Positions(s.r)
    [] s.k = "not" -> Positions(s.e)
    [] s.k \in {"cmp", "len", "date", "like"} -> {s.at}
    [] s.k = "in" -> s.from..(s.from + s.count - 1)
    [] s.k = "tags" -> (CASE s.test.k = "true" -> {} [] s.test.k = "suffix" -> {s.test.at, s.test.at + 1}
                          [] OTHER -> {s.test.at})
    [] OTHER -> {}
Used == UNION {Positions(where[i]) : i \in DOMAIN where}

\* The argument the driver binds to the placeholder made for argument x:
\* addArg writes $x for PostgreSQL and a bare ? for the others.
Position(x) == IF dialect = "postgres" THEN x ELSE Cardinality({y \in Used : y <= x})
Bound == [x \in Used |-> args[Position(x)]]
Misbound == \E x \in Used : Position(x) # x

\* Only SQLite accepts IN ().
RECURSIVE EmptyIn(_)
EmptyIn(s) ==
  CASE s.k \in {"and", "or"} -> EmptyIn(s.l) \/ EmptyIn(s.r)
    [] s.k = "not" -> EmptyIn(s.e)
    [] s.k = "in" -> s.count = 0
    [] OTHER -> FALSE
EmptyLists == dialect # "sqlite" /\ \E i \in DOMAIN where : EmptyIn(where[i])

\* The drivers of MySQL and PostgreSQL refuse arguments without a
\* placeholder, SQLite's leaves them over.
Accepted == ~ EmptyLists /\ (dialect # "sqlite" => Used = DOMAIN args)

Selected(row) == \A i \in DOMAIN where : Eval(where[i], row, Bound) = "T"

-----------------------------------------------------------------------------
(* One request.                                                            *)

\* Engine.Compile.
Compile(e) ==
  /\ stage = "ready"
  /\ Len(filters) < MaxFilters
  /\ filters' = Append(filters, e)
  /\ program' = Build(e)
  /\ stage' = IF Build(e) = Err THEN "rejected" ELSE "compiled"
  /\ UNCHANGED <<dialect, where, args, visibilities>>

\* (a plausible slip) the placeholders are numbered from one again
RenderWithoutOffset ==
  /\ stage = "compiled"
  /\ LET r == RenderCondition(program, dialect, 0)
     IN  IF r.sql = Err
         THEN stage' = "rejected" /\ UNCHANGED <<where, args>>
         ELSE /\ stage' = "ready"
              /\ where' = IF r.trivial THEN where ELSE Append(where, r.sql)
              /\ args' = IF r.trivial THEN args ELSE args \o r.args
  /\ UNCHANGED <<dialect, filters, program, visibilities>>

\* Program.Render and AppendConditions: an empty fragment is left out.
Render ==
  /\ stage = "compiled"
  /\ LET r == RenderCondition(program, dialect, Len(args))
     IN  IF r.sql = Err
         THEN stage' = "rejected" /\ UNCHANGED <<where, args>>
         ELSE /\ stage' = "ready"
              /\ where' = IF r.trivial THEN where ELSE Append(where, r.sql)
              /\ args' = IF r.trivial THEN args ELSE args \o r.args
  /\ UNCHANGED <<dialect, filters, program, visibilities>>

\* The rest of ListMemos: a condition of its own behind the filters', and
\* the statement is run.
Query(vs) ==
  /\ stage = "ready"
  /\ filters # <<>>
  /\ visibilities' = vs
  /\ where' = IF vs = <<>> THEN where
              ELSE Append(where, [k |-> "in", f |-> "visibility", from |-> Len(args) + 1, count |-> Len(vs)])
  /\ args' = args \o vs
  /\ stage' = "queried"
  /\ UNCHANGED <<dialect, filters, program>>

FilterInit ==
  /\ dialect \in Dialect
  /\ filters = <<>> /\ where = <<>> /\ args = <<>> /\ visibilities = <<>>
  /\ program = Null
  /\ stage = "ready"

FilterNext ==
  \/ filters = <<>> /\ \E e \in First : Compile(e)
  \/ filters # <<>> /\ \E e \in More : Compile(e)
  \/ Render
  \/ \E vs \in VisibilityLists : Query(vs)

FilterSpec == FilterInit /\ [][FilterNext]_filterVars

-----------------------------------------------------------------------------
(* What a filter means: CEL, with the deviations the README documents      *)
(* (content matches ignore case, all() wants a tag, a missing flag is      *)
(* false).                                                                 *)

FieldValue(f, row) ==
  CASE Kind(f) = "json_bool" -> row[f] # Null
    [] Kind(f) = "json_exists" -> row[f] # Null
    [] OTHER -> row[f]

RECURSIVE ValueOf(_, _)
ValueOf(v, row) ==
  CASE v.k = "num" -> v.n [] v.k = "str" -> v.s [] v.k = "bool" -> v.b [] v.k = "null" -> Null
    [] v.k = "now" -> Now
    [] v.k = "arith" -> EvaluateNumeric(v).n
    [] v.k = "field" -> FieldValue(v.f, row)
    [] v.k = "size" -> Len(row[v.f])
    [] v.k = "accessor" -> DatePart(IF v.of = "now" THEN Now ELSE row[v.of]) + CelBase(v.name)

Matches(mode, s, t) ==
  CASE mode = "equals" -> s = t
    [] mode = "prefix" -> IsPrefix(s, t)
    [] mode = "suffix" -> IsSuffix(s, t)
    [] mode = "contains" -> Occurs(s, t)

RECURSIVE Means(_, _)
Means(e, row) ==
  LET tags == {row.tags[i] : i \in DOMAIN row.tags}
  IN  CASE e.k = "const" -> e.b
        [] e.k = "and" -> Means(e.l, row) /\ Means(e.r, row)
        [] e.k = "or" -> Means(e.l, row) \/ Means(e.r, row)
        [] e.k = "not" -> ~ Means(e.e, row)
        [] e.k = "flag" -> FieldValue(e.f, row)
        [] e.k = "cmp" ->
             LET x == ValueOf(e.l, row) y == ValueOf(e.r, row)
             IN  CASE x = Null \/ y = Null -> (e.op = "=") = (x = y)
                   [] e.l.k = "str" /\ e.r.k = "str" -> CompareStrings(e.op, x, y)
                   [] OTHER -> Compare(e.op, x, y)
        [] e.k = "in" -> IF e.f = "tag" THEN \E i \in DOMAIN e.vs : e.vs[i] \in tags
                         ELSE \E i \in DOMAIN e.vs : e.vs[i] = row[e.f]
        [] e.k = "elem" -> e.s \in tags
        [] e.k = "text" -> Matches(e.mode, Lower(e.s), Lower(row[e.f]))
        [] e.k = "sets" ->
             LET vs == {e.vs[i] : i \in DOMAIN e.vs}
             IN  (CASE e.op = "contains" -> vs \subseteq tags
                    [] e.op = "intersects" -> vs \cap tags # {}
                    [] e.op = "equivalent" -> vs = tags)
        [] e.k = "each" ->
             LET ok == {t \in tags : Matches(e.mode, e.s, t)}
             IN  CASE e.kind = "exists" -> ok # {}
                   [] e.kind = "all" -> tags # {} /\ ok = tags
                   [] e.kind = "exists_one" -> \E t \in tags : ok = {t}

Meant(row) ==
  /\ \A i \in DOMAIN filters : Means(filters[i], row)
  /\ visibilities # <<>> => Contains(visibilities, row.visibility)

\* No leaf of the filter can be Null in SQL: no flag is compared with == or
\* != and no Space with a name.
RECURSIVE NullFree(_)
NullFree(e) ==
  CASE e.k \in {"and", "or"} -> NullFree(e.l) /\ NullFree(e.r)
    [] e.k = "not" -> NullFree(e.e)
    [] e.k = "cmp" -> ~ \E v \in {e.l, e.r} :
         v.k = "field" /\ (Kind(v.f) = "json_bool" \/ (v.f = "space" /\ "null" \notin {e.l.k, e.r.k}))
    [] OTHER -> TRUE

\* A part of the condition is constant, so that combineAnd and combineOr may
\* leave out a side whose arguments stay.
RECURSIVE Folded(_)
Folded(c) ==
  CASE c.k \in {"and", "or"} -> Folded(c.l) \/ Folded(c.r)
    [] c.k = "not" -> Folded(c.e)
    [] OTHER -> c.k = "const"

-----------------------------------------------------------------------------
(* Properties.  They leave out the statements the database refuses and,    *)
(* for SQLite, those in which the arguments of a side that was left out    *)
(* are bound to the placeholders behind it.                                *)

\* On every dialect a query returns only memos its filters mean, through
\* constant folding, swapped operands, negation of Nulls, LIKE escapes and
\* the composition of several filters and ListMemos' own condition in one
\* statement.
SelectsOnlyMeant ==
  stage = "queried" /\ Accepted /\ ~ Misbound => \A row \in Row : Selected(row) => Meant(row)

\* And it returns all of them when no leaf can be Null, so that the three
\* dialects agree.  Without a constant part (and an empty IN list) every
\* dialect accepts the statement and every placeholder gets the argument
\* the renderer made for it.
SelectsAllMeant ==
  /\ stage = "queried" /\ ~ EmptyLists
  /\ \A i \in DOMAIN filters : NullFree(filters[i])
  /\ (\E i \in DOMAIN filters : Folded(Build(filters[i]))) => Accepted /\ ~ Misbound
  => Accepted /\ ~ Misbound /\ \A row \in Row : Meant(row) => Selected(row)
=============================================================================
