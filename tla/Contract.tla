------------------------------ MODULE Contract ------------------------------
(***************************************************************************)
(* Which differences between two OpenAPI descriptions break a client       *)
(* (src/fws/contract.py classify_changes), against the requests of clients *)
(* themselves. A description has operations, and schemas that a body may   *)
(* refer to. An operation has the query parameters and the body fields it  *)
(* requires, whether it requires a body at all, and the type of its field. *)
(***************************************************************************)
EXTENDS Integers, Sequences, TLC

OpIds == {"GET a", "HEAD a", "POST b"}
Names == {"n"}
Refs == {"Model", "Alias"}

\* _operations(): the methods a client depends on.
Operations(spec) == {id \in DOMAIN spec.paths : id # "HEAD a"}

\* _required_params(): those of the query; one of the path is part of the path.
RequiredParams(op) == {p.name : p \in {q \in op.parameters : q.required /\ q.place # "path"}}

\* _deref(): one level; a name nobody defines is an empty schema.
Schema(required) == [ref |-> "", required |-> required]
Deref(schema, spec) ==
    IF schema.ref = "" THEN schema
    ELSE IF schema.ref \in DOMAIN spec.schemas THEN spec.schemas[schema.ref] ELSE Schema({})

RequiredBodyFields(op, spec) == Deref(op.body, spec).required

\* classify_changes().
Breaking(old, new) ==
    LET both == Operations(old) \cap Operations(new) IN
    {<<"removed", id>> : id \in Operations(old) \ Operations(new)}
    \cup UNION {{<<"param", id, n>> : n \in RequiredParams(new.paths[id]) \ RequiredParams(old.paths[id])}
                  : id \in both}
    \cup UNION {{<<"field", id, n>> : n \in RequiredBodyFields(new.paths[id], new)
                                             \ RequiredBodyFields(old.paths[id], old)} : id \in both}

Additive(old, new) ==
    LET both == Operations(old) \cap Operations(new) IN
    {<<"added", id>> : id \in Operations(new) \ Operations(old)}
    \cup UNION {{<<"freed", id, n>> : n \in RequiredBodyFields(old.paths[id], old)
                                             \ RequiredBodyFields(new.paths[id], new)} : id \in both}

-----------------------------------------------------------------------------

Params == [name : Names, required : BOOLEAN, place : {"query", "path"}]
Bodies == {Schema({}), Schema(Names), [ref |-> "Model", required |-> {}], [ref |-> "Alias", required |-> {}]}
Described == [parameters : {{}} \cup {{p} : p \in Params}, body : Bodies, type : {"int", "str"},
        needsBody : BOOLEAN]

\* Alias stands for Model in one of them.
SchemaSets == {"Model" :> Schema(r) : r \in SUBSET Names}
                \cup {("Alias" :> [ref |-> "Model", required |-> {}]) @@ ("Model" :> Schema(Names))}
Specs == [paths : UNION {[I -> Described] : I \in {{}, {"GET a"}, {"HEAD a"}}}, schemas : SchemaSets]

\* A request: the operation, and what it gives. The path has its own parameters.
Request == [id : OpIds, params : SUBSET Names, fields : SUBSET Names, hasBody : BOOLEAN, type : {"int", "str"}]

RECURSIVE Resolved(_, _)
Resolved(schema, spec) ==
    IF schema.ref = "" THEN schema
    ELSE IF schema.ref \in DOMAIN spec.schemas THEN Resolved(spec.schemas[schema.ref], spec) ELSE Schema({})

Works(spec, r) ==
    /\ r.id \in DOMAIN spec.paths
    /\ LET op == spec.paths[r.id] IN
          /\ RequiredParams(op) \subseteq r.params
          /\ Resolved(op.body, spec).required \subseteq r.fields
          /\ op.needsBody => r.hasBody
          /\ r.fields # {} => r.type = op.type

Breaks(old, new) == \E r \in Request : Works(old, r) /\ ~Works(new, r)

\* As long as types, the need for a body and schemas of schemas stay out of it, a change is said to
\* break clients when there is a request that worked and does not, and only then. A type that
\* changed breaks them too, and is not said to, though the module says that it is.
Alike(old, new) ==
    \A id \in DOMAIN old.paths \cap DOMAIN new.paths :
        LET o == old.paths[id] n == new.paths[id] IN
        o.type = n.type /\ o.needsBody = n.needsBody /\ "Alias" \notin {o.body.ref, n.body.ref}

SampleOld == {s \in Specs : \A id \in DOMAIN s.paths : s.paths[id].type = "int" /\ ~s.paths[id].needsBody}

ASSUME BreakingIsToldExactly ==
    \A old \in SampleOld, new \in Specs :
        Alike(old, new) /\ "HEAD a" \notin DOMAIN old.paths => (Breaking(old, new) # {} <=> Breaks(old, new))

\* Of two changes that undo one another, one adds what the other breaks.
ASSUME AdditionsAreRemovals ==
    \A old \in SampleOld, new \in SampleOld :
        /\ {c[2] : c \in {d \in Additive(old, new) : d[1] = "added"}}
              = {c[2] : c \in {d \in Breaking(new, old) : d[1] = "removed"}}
        /\ {Tail(c) : c \in {d \in Additive(old, new) : d[1] = "freed"}}
              = {Tail(c) : c \in {d \in Breaking(new, old) : d[1] = "field"}}

=============================================================================
