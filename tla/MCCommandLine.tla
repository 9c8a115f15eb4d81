--------------------------- MODULE MCCommandLine ----------------------------
(***************************************************************************)
(* A process p1 in the style of tests/dtmc/herman3.prism, which owns x1    *)
(* and reads x3, with up to two copies of it or of copies; and a small     *)
(* model under all combinations of arguments.                              *)
(***************************************************************************)
EXTENDS CommandLine

MCModuleName == {"p1", "p2", "p3"}
MCIdent      == {"x1", "x2", "x3", "c", "k"}
MCLabel      == {"step"}
MCShape      == {"literal", "name", "equal"}
MCValue      == {0, 1}

Const        == [shape |-> "literal", names |-> <<>>]
Read(n)      == [shape |-> "name", names |-> <<n>>]
Equal(n, m)  == [shape |-> "equal", names |-> <<n, m>>]
Local(n)     == [name |-> n, exprs |-> <<Const, Read("c"), Const>>]
Assign(n, e) == [target |-> n, value |-> e]

(* A labelled and an unlabelled command; `other` is where the second one   *)
(* writes.                                                                 *)
Process(other) ==
    [name |-> "p1", local_vars |-> <<Local("x1")>>,
     commands |->
       << [labels |-> <<"step">>, guard |-> Equal("x1", "x3"),
           updates |-> << [prob |-> Read("c"), assignments |-> <<Assign("x1", Const)>>],
                          [prob |-> Const, assignments |-> <<>>] >>],
          [labels |-> <<>>, guard |-> Equal("x3", "c"),
           updates |-> << [prob |-> Const, assignments |-> <<Assign(other, Equal("x3", "x1"))>>] >>] >>]

Plain(name, local) == [name |-> name, local_vars |-> <<Local(local)>>, commands |-> <<>>]

Cycles     == << <<"x1", "x2">>, <<"x3", "x1">> >>
Twisted    == << <<"x3", "x2">>, <<"x1", "x3">>, <<"x3", "x2">> >>
Renames ==
    { Cycles, Twisted, << >>, << <<"x3", "x2">> >>, << <<"x1", "c">> >>,
      << <<"x1", "x2">>, <<"x1", "x3">> >>, << <<"x1", "x1">>, <<"x2", "x3">> >>,
      << <<"x2", "x3">>, <<"x3", "x1">> >>, << <<"x1", "x2">>, <<"x2", "x1">>, <<"c", "x3">> >> }

Declarations ==
    {[name |-> n, base |-> b, renames |-> r] :
        n \in {"p1", "p2", "p3"}, b \in {"p1", "p2"}, r \in Renames}

Ast(ms, copies) == [modules |-> ms, renamed_modules |-> copies, constants |-> <<"c">>]

(* Two plain modules of one name are accepted when their variables differ. *)
CopiedModels ==
    {Ast(<<Process("x1")>>, <<d, e>>) : d \in Declarations, e \in Declarations} \cup
    {Ast(ms, copies) :
        ms \in { <<Process("x1")>>, <<Process("x3"), Plain("p2", "x3")>>,
                 <<Process("x1"), Plain("p1", "x3")>>, <<Process("x1"), Process("x3")>> },
        copies \in {<< >>} \cup {<<d>> : d \in Declarations}}

SmallModel == Ast(<<Process("x1")>>, << [name |-> "p2", base |-> "p1", renames |-> Cycles] >>)

MCText == {"1", "2", "3", "c", "k", "p1", "reach", "safe", "cost", "late"}

MCModels == CopiedModels \cup {SmallModel}

-----------------------------------------------------------------------------
Probability == [name |-> "reach", kind |-> "probability"]
Always      == [name |-> "safe", kind |-> "probability"]
Reward      == [name |-> "cost", kind |-> "reward"]
BadBound    == [name |-> "late", kind |-> "rejected"]

Blank       == [kind |-> "blank"]
Word        == [kind |-> "word"]
Number(n)   == [kind |-> "number", value |-> n]
Pair(n, v)  == [kind |-> "pair", name |-> n, value |-> v]

File(status, ast)    == [status |-> status, ast |-> ast]
Props(status, cs, ps) ==
    IF status = "absent" THEN [status |-> status, constants |-> << >>, properties |-> << >>]
    ELSE [status |-> status, constants |-> cs, properties |-> ps]

RunOf(type, consts, model, prop_file, props) ==
    [model_type |-> type, consts |-> consts, model |-> model, prop_file |-> prop_file, props |-> props]

SmallArguments ==
    { RunOf(type, consts, File(m, SmallModel), Props(f, cs, ps), props) :
        type \in {"dtmc", "mdp"},
        consts \in { << >>, <<Pair("c", "1"), Blank, Pair("k", "2"), Pair("c", "3")>>,
                     <<Pair("c", "1")>>, <<Pair("c", "1"), [kind |-> "malformed"]>>, <<Pair("p1", "1")>> },
        m \in {"ok", "missing", "malformed"}, f \in {"ok", "missing", "malformed", "absent"},
        cs \in { << >>, <<"k">>, <<"x2">> },
        ps \in { << >>, <<Reward, Probability>>, <<Probability, Reward, Always>>, <<Always, BadBound>> },
        props \in { None, [tokens |-> <<Blank>>], [tokens |-> <<Number(2), Blank, Number(1), Number(2)>>],
                    [tokens |-> <<Number(3)>>], [tokens |-> <<Number(1), Number(0)>>],
                    [tokens |-> <<Number(1), Word>>] } }

CopyArguments ==
    { RunOf("dtmc", << >>, File("ok", m), Props("ok", << >>, <<Probability>>), None) : m \in MCModels }

MCArguments == SmallArguments \cup CopyArguments
=============================================================================
