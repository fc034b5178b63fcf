------------------------------ MODULE Arguments ------------------------------
(***************************************************************************)
(* What the generic invoker does to a command's arguments before anything  *)
(* is sent (src/fws/invoke.py _coerce, coerce_args). A JSON value has its  *)
(* type; a number, or a text that reads as one, has its value in halves.   *)
(***************************************************************************)
EXTENDS Integers, SequencesExt

Whole == {0, 2, 4}
Number == [type : {"bool"}, half : {0, 2}, reads : {""}] \cup [type : {"int"}, half : Whole, reads : {""}]
            \cup [type : {"float"}, half : 0..4, reads : {""}]
Text == [type : {"str"}, half : Whole, reads : {"int"}] \cup [type : {"str"}, half : 0..4, reads : {"float"}]
            \cup [type : {"str"}, half : {0}, reads : {"no"}]
Null == [type |-> "null"]
Object == [type |-> "object"]
Flat == {[type |-> "list", items |-> s] : s \in SeqOf({[type |-> "int", half |-> 2, reads |-> ""]}, 2)}
Nested == [type : {"list"}, items : {<<Null>>, <<Object>>, <<CHOOSE f \in Flat : TRUE>>}]
Json == Number \cup Text \cup {Null, Object} \cup Flat \cup Nested

Declared == {"const", "int", "float", "str", "list", "any"}
Want == 2        \* the constant of a "const", 1 in halves; the SDK's are all integers

Scalar(v) == v.type \in {"bool", "int", "float", "str"}
IsFlat(v) == v.type = "list" /\ \A i \in DOMAIN v.items : Scalar(v.items[i])


\* The checks of _coerce(): what the type of the argument may be made of. True is a 1 to an int,
\* to a constant and to a text, and is none to a float.
Fits(declared, v) ==
    CASE declared = "const" -> v.type \in {"bool", "int", "float"} /\ v.half = Want
      [] declared = "int" -> \/ v.type \in {"bool", "int"}
                             \/ v.type = "float" /\ v.half % 2 = 0
                             \/ v.type = "str" /\ v.reads = "int"
      [] declared = "float" -> v.type \in {"int", "float"} \/ (v.type = "str" /\ v.reads # "no")
      [] declared = "str" -> Scalar(v)
      [] declared = "list" -> IsFlat(v)
      [] declared = "any" -> Scalar(v) \/ IsFlat(v)

Refused == [type |-> "refused"]

Coerce(declared, v) ==
    IF ~Fits(declared, v) THEN Refused
    ELSE CASE declared = "const" -> [type |-> "int", half |-> Want, reads |-> ""]
           [] declared \in {"int", "float"} -> [type |-> declared, half |-> v.half, reads |-> ""]
           [] declared = "str" /\ v.type # "str" ->
                [type |-> "str", half |-> v.half, reads |-> IF v.type = "bool" THEN "no" ELSE v.type]
           [] OTHER -> v

\* coerce_args(): the arity is exact. A recovered RPC has an arity and no types: nothing of its
\* arguments is looked at, but that True goes out as a 1.
CoerceArgs(cmd, args) ==
    LET types == IF Len(cmd.types) = cmd.arity THEN cmd.types ELSE [i \in 1..cmd.arity |-> "any"]
        Recovered(v) == IF v.type = "bool" THEN [v EXCEPT !.type = "int"] ELSE v
        sent == IF cmd.recovered /\ cmd.types = <<>> THEN [i \in DOMAIN args |-> Recovered(args[i])]
                ELSE [i \in DOMAIN args |-> Coerce(types[i], args[i])]
    IN  IF Len(args) # cmd.arity THEN <<Refused>>
        ELSE IF Refused \in ToSet(sent) THEN <<Refused>> ELSE sent

-----------------------------------------------------------------------------

\* What is sent is of the declared type, has the number the caller wrote (1.5 does not become 1),
\* holds no null and no object, and is what coercing it once more gives.
ASSUME CoercionKeepsTheValue ==
    \A declared \in Declared, v \in Json :
        LET c == Coerce(declared, v) IN c # Refused =>
            /\ declared \in {"int", "float", "str", "list"} => c.type = declared
            /\ v \in Number \cup Text /\ ~(v.type = "bool" /\ c.type = "str") => c.half = v.half
            /\ Scalar(c) \/ IsFlat(c)
            /\ Coerce(declared, c) = c

Commands2 == [types : SeqOf(Declared, 2), arity : 0..2, recovered : BOOLEAN]
Some == {Null, Object, [type |-> "bool", half |-> 2, reads |-> ""], [type |-> "float", half |-> 3, reads |-> ""]}

\* A call has the arguments its command takes, one for one, or none is made. Of a command with types
\* no null is sent; of a recovered one it is, and a test says it never is.
ASSUME ArityIsExact ==
    \A cmd \in Commands2, args \in SeqOf(Some, 2) :
        LET sent == CoerceArgs(cmd, args) IN sent # <<Refused>> =>
            /\ Len(args) = cmd.arity /\ Len(sent) = cmd.arity
            /\ Null \in ToSet(sent) => cmd.recovered /\ cmd.types = <<>>

=============================================================================
