------------------------------- MODULE MCFilter -------------------------------
(* Filters of two levels over one atom or two of every form; tags and texts *)
(* of up to two characters with every metacharacter.                        *)
EXTENDS Filter

Field(f) == [k |-> "field", f |-> f]
Num(n) == [k |-> "num", n |-> n]
Str(s) == [k |-> "str", s |-> s]
Cmp(op, l, r) == [k |-> "cmp", op |-> op, l |-> l, r |-> r]
Flag(f) == [k |-> "flag", f |-> f]
Part(name, of) == [k |-> "accessor", name |-> name, of |-> of]

\* Atoms that are combined with each other.
Small ==
  { [k |-> "const", b |-> TRUE],
    Cmp("<", [k |-> "now"], Num(1)),
    Flag("pinned"), Flag("has_link"), Flag("has_location"),
    Cmp("=", Field("has_task_list"), [k |-> "bool", b |-> FALSE]),
    Cmp("!=", Field("has_link"), [k |-> "bool", b |-> TRUE]),
    Cmp("=", Field("space"), Str(<<"s">>)),
    Cmp("=", [k |-> "null"], Field("space")),
    Cmp("<=", Num(1), Field("created_ts")),
    [k |-> "in", f |-> "visibility", vs |-> <<>>],
    [k |-> "text", f |-> "content", mode |-> "contains", s |-> <<"%">>],
    [k |-> "sets", op |-> "equivalent", vs |-> << <<"a">>, <<"!">>, <<"a">> >>] }

\* The remaining atoms, alone and negated.
Modes == {"prefix", "suffix", "contains"}
Strings == { <<>>, <<"a">>, <<"A">>, <<"%">>, <<"_">>, <<"!">>, <<"\\">>, <<"a", "%">>, <<"!", "%">> }
Other ==
  { Cmp(op, Field("created_ts"), [k |-> "arith", op |-> o, l |-> [k |-> "now"], r |-> Num(n)]) :
      op \in {"<", "<=", ">", ">=", "!="}, o \in {"+", "-", "/"}, n \in {0, 1} }
  \cup { Cmp(op, Part(a, "now"), Part(a, "created_ts")) : op \in {"=", "<"}, a \in {"getMonth", "getDate", "getDayOfWeek"} }
  \cup { Cmp(op, [k |-> "size", f |-> f], Num(1)) : op \in {"=", ">"}, f \in {"tags", "content"} }
  \cup { Cmp(op, Field("visibility"), Str(<<"P">>)) : op \in {"=", "!=", "<"} }
  \cup { Cmp("=", Field("has_location"), [k |-> "bool", b |-> b]) : b \in BOOLEAN }
  \cup { Cmp("=", Field("has_link"), [k |-> "bool", b |-> b]) : b \in BOOLEAN }
  \cup { Cmp("!=", Field("has_task_list"), [k |-> "bool", b |-> b]) : b \in BOOLEAN }
  \cup { Cmp("=", Field("created_ts"), Field("updated_ts")), Cmp("=", Field("tag"), Str(<<"a">>)),
         Cmp("=", [k |-> "bool", b |-> TRUE], Field("pinned")), Cmp("=", Str(<<"a">>), Str(<<"A">>)) }
  \cup { Cmp(op, Str(<<"a">>), Str(s)) : op \in {"<", "<=", ">", ">="}, s \in {<<"A">>, <<"a">>, <<"a", "%">>} }
  \cup { [k |-> "in", f |-> "visibility", vs |-> << <<"P">>, <<"Q">> >>], [k |-> "in", f |-> "pinned", vs |-> <<>>] }
  \cup { [k |-> "in", f |-> "tag", vs |-> vs] : vs \in { <<>>, << <<"a">> >>, << <<"A">>, <<"!", "%">> >> } }
  \cup { [k |-> "sets", op |-> op, vs |-> vs] : op \in {"contains", "intersects", "equivalent"},
                                               vs \in { <<>>, << <<"a">> >>, << <<"a">>, <<"A">> >> } }
  \cup { [k |-> "text", f |-> "content", mode |-> m, s |-> s] : m \in Modes, s \in Strings }
  \cup { [k |-> "text", f |-> "visibility", mode |-> m, s |-> <<"P">>] : m \in Modes }
  \cup { [k |-> "each", kind |-> c, mode |-> m, s |-> s] :
           c \in {"exists", "all", "exists_one"}, m \in Modes \cup {"equals"}, s \in Strings }

Negated(S) == { [k |-> "not", e |-> e] : e \in S }
Pairs(S, T) == { [k |-> op, l |-> l, r |-> r] : op \in {"and", "or"}, l \in S, r \in T }

MCFirst == Small \cup Other \cup Negated(Small \cup Other) \cup Pairs(Small \cup Negated(Small), Small)
             \cup Negated(Pairs(Small, Small))
MCMore == { Cmp("=", Field("visibility"), Str(<<"P">>)),
            [k |-> "or", l |-> [k |-> "elem", s |-> <<"a">>], r |-> Flag("pinned")] }

MCVisibilityLists == { <<>>, << <<"P">> >> }

Blank == [content |-> <<>>, created_ts |-> 0, updated_ts |-> 0, visibility |-> <<"P">>, pinned |-> FALSE,
          space |-> Null, tags |-> <<>>, has_task_list |-> Null, has_link |-> Null, has_location |-> Null]
MCRow ==
  { [Blank EXCEPT !.space = s, !.has_task_list = t, !.has_link = l, !.pinned = p] :
      s \in {Null, <<"s">>, <<"t">>}, t \in {Null, TRUE}, l \in {Null, TRUE}, p \in BOOLEAN }
  \cup { [Blank EXCEPT !.content = c, !.created_ts = Len(c), !.visibility = <<"Q">>, !.has_location = TRUE] :
           c \in { <<"a">>, <<"%">>, <<"\\">>, <<"A", "%">>, <<"_", "a">>, <<"a", "\\", "%">> } }
  \cup { [Blank EXCEPT !.tags = t, !.created_ts = Len(t)] :
           t \in { << <<"a">> >>, << <<"A">>, <<"a">> >>, << <<"!">>, <<"a">> >>, << <<"!", "%">> >>,
                   << <<"a", "%">>, <<"_">>, <<"a", "_", "a">> >> } }
=============================================================================
