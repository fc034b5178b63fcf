------------------------------- MODULE Listing -------------------------------
(***************************************************************************)
(* The directory listing that is read out of the user data backup          *)
(* (src/fws/files_listing.py parse_archive). A member's path is its        *)
(* segments under one of the three directories it looks at, or elsewhere;  *)
(* the last one has a stem and an ending.                                  *)
(***************************************************************************)
EXTENDS Integers, SequencesExt

UserDir == "user"
PointTableDir == "point_table"
TemplateDir == "template"

Member == [dir : {UserDir, PointTableDir, TemplateDir, "elsewhere"},
           under : {<<>>, <<"a">>, <<"a", "b">>},
           stem : {"a", "2024-01-31-12-00"}, ending : {"lua", "db"}]

\* _is_autosave(): five groups of digits, the first of four.
Autosave(stem) == stem = "2024-01-31-12-00"

\* What is under a directory beside a program: its revisions, and its taught points.
History(members, stem) ==
    {m \in members : m.dir = UserDir /\ m.under # <<>> /\ m.under[1] = stem /\ m.ending = "lua"}
Taught(members, stem) ==
    \E m \in members : m.dir = UserDir /\ m.under # <<>> /\ m.under[1] = stem /\ m.ending = "db"

Entry(kind, m) ==
    [kind |-> kind, name |-> <<m.under, m.stem>>, autosave |-> FALSE, versions |-> {}, taught |-> FALSE]

\* parse_archive(): a table or a template in a directory of its own is listed by its path.
ParseArchive(members) ==
    {[Entry("lua", m) EXCEPT !.autosave = Autosave(m.stem), !.versions = History(members, m.stem),
                             !.taught = Taught(members, m.stem)]
        : m \in {n \in members : n.dir = UserDir /\ n.under = <<>> /\ n.ending = "lua"}}
    \cup {Entry("point_table", m) : m \in {n \in members : n.dir = PointTableDir /\ n.ending = "db"}}
    \cup {Entry("template", m) : m \in {n \in members : n.dir = TemplateDir /\ n.ending = "lua"}}

\* What the route shows: autosaves are folded away unless asked for.
Shown(entries, kind, autosaves) == {e \in entries : e.kind = kind /\ (autosaves \/ ~e.autosave)}

\* Every program is listed, once, by the name the file wire takes; a file below it in the tree is a
\* revision of it and no program of its own; a revision of a program that is gone is nowhere.
ASSUME ListingIsTheDirectory ==
    \A members \in {S \in SUBSET {m \in Member : m.dir = UserDir} : Cardinality(S) <= 3} :
        LET entries == ParseArchive(members) IN
        /\ {e.name : e \in Shown(entries, "lua", TRUE)}
              = {<<<<>>, m.stem>> : m \in {n \in members : n.under = <<>> /\ n.ending = "lua"}}
        /\ \A m \in members : m.under # <<>> /\ m.ending = "lua" =>
              \A e \in entries : m \in e.versions <=> e.name = <<<<>>, m.under[1]>>
        /\ \A e \in Shown(entries, "lua", FALSE) : ~Autosave(e.name[2])

=============================================================================
