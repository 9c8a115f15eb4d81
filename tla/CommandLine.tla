---------------------------- MODULE CommandLine -----------------------------
(***************************************************************************)
(* One run of the program: the arguments are read, the model and property  *)
(* files parsed, renamed modules expanded (Renaming), the analysis checks  *)
(* the rest, and for a DTMC the selected properties are evaluated in turn. *)
(* The first step that fails prints one message and ends the run.          *)
(*                                                                         *)
(* The arguments hold                                                      *)
(*   model_type  "dtmc" or "mdp";                                          *)
(*   consts      the entries of --const (ConstEntry);                      *)
(*   model       the model file, [status, ast];                            *)
(*   prop_file   the property file, [status, constants, properties], the   *)
(*               status "absent" without the option;                       *)
(*   props       the entries of --props (PropEntry), or None.              *)
(* A property is a probability, a reward, or one that the analysis does    *)
(* not accept.  What the analysis and the evaluation do beyond that is the *)
(* subject of Analysis and of the modules on sym_check.                    *)
(***************************************************************************)
EXTENDS Renaming

CONSTANTS
    None,         \* an option that is not given
    Text,         \* names and values as the user writes them
    Arguments     \* the argument lists to run with

ConstEntry == [kind : {"blank", "malformed", "nameless"}]
                \cup [kind : {"pair"}, name : Text, value : Text]
PropEntry  == [kind : {"blank", "word"}] \cup [kind : {"number"}, value : Nat]
Property   == [name : Text, kind : {"probability", "reward", "rejected"}]

ASSUME ArgumentsAssumption ==
    \A a \in Arguments :
        /\ a.consts \in Seq(ConstEntry)
        /\ a.model.ast \in Models
        /\ a.prop_file.constants \in Seq(Ident)
        /\ a.prop_file.properties \in Seq(Property)
        /\ a.props # None => a.props.tokens \in Seq(PropEntry)

VARIABLES
    args,         \* the arguments of the run
    turn,         \* the entry the loop over --const, later --props, has come to
    overrides,    \* const_overrides: the value given to each constant named
    properties,   \* ast.properties
    selected,     \* the indices left to evaluate, from 0
    answers       \* what was printed for each property evaluated

cliVars == <<args, turn, overrides, properties, selected, answers>>
allVars == <<modelVars, stage, diagnosis, cliVars>>

MainInit ==
    /\ args \in Arguments
    /\ given = [modules |-> <<>>, renamed_modules |-> <<>>, constants |-> <<>>]
    /\ modules = <<>> /\ expanded = 0
    /\ stage = "const" /\ diagnosis = "" /\ turn = 1
    /\ overrides = <<>> /\ properties = <<>> /\ selected = <<>> /\ answers = <<>>

Fail(why) == Reject(why) /\ UNCHANGED cliVars

Proceed(place) == stage' = place /\ UNCHANGED diagnosis

(* A slip: the first of two values for a constant is kept. *)
InsertFirst(map, name, value) ==
    [n \in DOMAIN map \cup {name} |-> IF n \in DOMAIN map THEN map[n] ELSE value]

(* HashMap::insert: a later value takes the place of an earlier one. *)
Insert(map, name, value) ==
    [n \in DOMAIN map \cup {name} |-> IF n = name THEN value ELSE map[n]]

(* One entry of --const, or the end of the list. *)
ParseConstArg ==
    /\ stage = "const"
    /\ IF turn > Len(args.consts)
       THEN /\ Proceed("read") /\ turn' = 1
            /\ UNCHANGED <<modelVars, args, overrides, properties, selected, answers>>
       ELSE LET entry == args.consts[turn] IN
            \/ entry.kind \in {"malformed", "nameless"} /\ Fail("--const")
            \/ /\ entry.kind \in {"blank", "pair"} /\ turn' = turn + 1
               /\ overrides' = IF entry.kind = "blank" THEN overrides
                               ELSE Insert(overrides, entry.name, entry.value)
               /\ UNCHANGED <<modelVars, stage, diagnosis, args, properties, selected, answers>>

(* Both files are read before either is parsed. *)
ReadFiles ==
    /\ stage = "read"
    /\ IF "missing" \in {args.model.status, args.prop_file.status}
       THEN Fail("file")
       ELSE Proceed("parse") /\ UNCHANGED <<modelVars, cliVars>>

(* The property file's constants and properties follow the model's. *)
Parse ==
    /\ stage = "parse"
    /\ IF "malformed" \in {args.model.status, args.prop_file.status}
       THEN Fail("syntax")
       ELSE LET ast == args.model.ast
            IN  /\ given' = [ast EXCEPT !.constants = @ \o args.prop_file.constants]
                /\ modules' = ast.modules
                /\ expanded' = 0
                /\ properties' = args.prop_file.properties
                /\ Proceed("expand")
                /\ UNCHANGED <<args, turn, overrides, selected, answers>>

(* expand_renamed_modules and the symbol table. *)
ExpandAndDeclare == (ExpandModule \/ DeclareSymbols) /\ UNCHANGED cliVars

(* The overrides name constants, and the properties pass the analysis. *)
Analyse ==
    /\ stage = "override"
    /\ IF \/ ~ (DOMAIN overrides \subseteq Range(given.constants))
          \/ \E i \in DOMAIN properties : properties[i].kind = "rejected"
       THEN Fail("analysis")
       ELSE /\ Proceed(IF args.model_type = "mdp" THEN "end" ELSE "select")
            /\ UNCHANGED <<modelVars, cliVars>>

(* Nothing is evaluated without a property, and everything without --props. *)
Select ==
    /\ stage = "select"
    /\ IF properties = <<>>
       THEN Proceed("end") /\ UNCHANGED <<modelVars, cliVars>>
       ELSE /\ IF args.props = None
               THEN Proceed("check") /\ selected' = [i \in DOMAIN properties |-> i - 1]
               ELSE Proceed("indices") /\ UNCHANGED selected
            /\ UNCHANGED <<modelVars, args, turn, overrides, properties, answers>>

(* One entry of --props, which counts from 1 where the indices count from  *)
(* 0, or the end of the list.                                              *)
ParsePropIndicesArg ==
    /\ stage = "indices"
    /\ IF turn > Len(args.props.tokens)
       THEN Proceed("check") /\ UNCHANGED <<modelVars, cliVars>>
       ELSE LET token == args.props.tokens[turn] IN
            \/ token.kind = "word" /\ Fail("--props")
            \/ /\ token.kind = "number" /\ token.value \notin 1 .. Len(properties)
               /\ Fail("--props")
            \/ /\ \/ token.kind = "blank" /\ UNCHANGED selected
                  \/ /\ token.kind = "number" /\ token.value \in 1 .. Len(properties)
                     /\ selected' = Append(selected, token.value - 1)
               /\ turn' = turn + 1
               /\ UNCHANGED <<modelVars, stage, diagnosis, args, overrides, properties, answers>>

(* evaluate_property_at_initial_state, from the constants in force. *)
Evaluation(property) ==
    CASE property.kind = "probability" -> [value |-> property.name, under |-> overrides]
      [] property.kind = "reward"      -> [value |-> "unsupported", under |-> <<>>]
      [] OTHER                         -> [value |-> "error", under |-> <<>>]

(* One turn of the loop: whatever comes of it, the next property follows. *)
Check ==
    /\ stage = "check"
    /\ IF selected = <<>>
       THEN Proceed("end") /\ UNCHANGED <<modelVars, cliVars>>
       ELSE /\ answers' = Append(answers,
                    [number |-> Head(selected) + 1,
                     result |-> Evaluation(properties[Head(selected) + 1])])
            /\ selected' = Tail(selected)
            /\ UNCHANGED <<modelVars, stage, diagnosis, args, turn, overrides, properties>>

MainNext ==
    \/ ParseConstArg \/ ReadFiles \/ Parse \/ ExpandAndDeclare
    \/ Analyse \/ Select \/ ParsePropIndicesArg \/ Check

MainSpec == MainInit /\ [][MainNext]_allVars

-----------------------------------------------------------------------------
(* What the user asks for, entry by entry: every number without --props. *)
Requests ==
    IF args.props = None
    THEN [i \in DOMAIN args.prop_file.properties |-> [kind |-> "number", value |-> i]]
    ELSE args.props.tokens

(* The last value given to the constant. *)
LastValue(name) ==
    LET Gives(i) == args.consts[i].kind = "pair" /\ args.consts[i].name = name
        last == CHOOSE i \in DOMAIN args.consts : Gives(i) /\ \A j \in DOMAIN args.consts : Gives(j) => j <= i
    IN  args.consts[last].value

NamedConstants ==
    {args.consts[i].name : i \in {j \in DOMAIN args.consts : args.consts[j].kind = "pair"}}

AnswerFor(property) ==
    CASE property.kind = "probability" ->
           [value |-> property.name, under |-> [n \in NamedConstants |-> LastValue(n)]]
      [] property.kind = "reward" -> [value |-> "unsupported", under |-> <<>>]

(* At its end a run has given one message and no answer, or has answered   *)
(* each property asked for, by the number it has in the property file, in  *)
(* the order asked, with the values --const gave last; a reward among them *)
(* stops none of the others, and no evaluation fails (main).  The function *)
(* f names the request that an answer is for.                              *)
AnsweredAsAsked ==
    stage = "end" =>
        IF diagnosis # "" \/ args.model_type = "mdp" \/ properties = <<>>
        THEN answers = <<>>
        ELSE \E f \in [DOMAIN answers -> DOMAIN Requests] :
               /\ Range(f) = {i \in DOMAIN Requests : Requests[i].kind = "number"}
               /\ \A j, k \in DOMAIN answers : j < k => f[j] < f[k]
               /\ \A k \in DOMAIN answers :
                    LET number == Requests[f[k]].value IN
                    answers[k] = [number |-> number,
                                  result |-> AnswerFor(args.prop_file.properties[number])]
=============================================================================
