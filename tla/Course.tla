-------------------------------- MODULE Course --------------------------------
(***************************************************************************)
(* The course loader of the tutor (loader.ts, schema.ts): which courses,   *)
(* steps and checks come out of the packs that are found, and what is      *)
(* reported on the way.                                                    *)
(*                                                                         *)
(* A pack is [manifest, files]: its course.json, NoManifest if that cannot *)
(* be read, and its step files <<step id, language>> with their front      *)
(* matter, NoFrontMatter if there is none.  A field whose form only is     *)
(* checked (titles, descriptions, links) is part of wellFormed.            *)
(* A check is a tree, as a function of the places in it: <<>> is the check *)
(* itself, Append(p, i) the i-th part of the "all" or "any" at p.  At each *)
(* place is [type, arg, parts]: arg is what its type reads, parts how many *)
(* parts it has.                                                           *)
(***************************************************************************)
EXTENDS Naturals, Sequences, SequencesExt

CONSTANTS NoManifest, NoFrontMatter, NoPack, BadRegExp, None

BoardStates == {"connected", "disconnected", "halted", "running"}
Since == {"stepStart", "sessionStart", "any"}
Composite == {"all", "any"}
CheckTypes == {"board", "task", "build", "fileMatches", "fileNotMatches", "symbolInElf", "flash",
               "serialExpect", "debugStop", "question", "manual"} \cup Composite

(* What the file system and the JSON parser may hand over *)

IsTree(c) ==
  /\ <<>> \in DOMAIN c
  /\ \A p \in DOMAIN c :
       /\ p \in Seq(Nat \ {0}) /\ c[p].parts \in Nat
       /\ c[p].parts # 0 => c[p].type \in Composite
       /\ \A i \in 1..c[p].parts : Append(p, i) \in DOMAIN c
       /\ p # <<>> => Front(p) \in DOMAIN c /\ Last(p) \in 1..c[Front(p)].parts

IsPack(pack) ==
  \A f \in DOMAIN pack.files :
    /\ f = <<f[1], f[2]>> /\ f[2] \in {"en", "de"}
    /\ pack.files[f] # NoFrontMatter =>
         \A i \in DOMAIN pack.files[f].tasks : IsTree(pack.files[f].tasks[i].check)

------------------------------------------------------------------------------
(* schema.ts *)

ValidArg(c) == /\ c.type = "board" => c.arg \in BoardStates
               /\ c.type = "flash" => c.arg \in Since
               /\ c.type \in {"fileMatches", "fileNotMatches", "serialExpect"} => c.arg # BadRegExp

CheckAllowingEmpty(c) == \A p \in DOMAIN c : c[p].type \in CheckTypes /\ ValidArg(c[p])

ValidateCheck(c) ==
  \A p \in DOMAIN c :
    /\ c[p].type \in CheckTypes /\ ValidArg(c[p])
    /\ c[p].type \in Composite => c[p].parts # 0

ValidateStep(fm, id) ==
  /\ fm # NoFrontMatter /\ fm.wellFormed
  /\ fm.id = id
  /\ IsInjective([i \in DOMAIN fm.tasks |-> fm.tasks[i].id])
  /\ \A i \in DOMAIN fm.tasks : ValidateCheck(fm.tasks[i].check)

ListedIn(modules) == FlattenSeq([i \in DOMAIN modules |-> modules[i].steps])

ValidateManifest(m) ==
  /\ m # NoManifest /\ m.wellFormed /\ m.schema = 1
  /\ m.modules # <<>>
  /\ IsInjective([i \in DOMAIN m.modules |-> m.modules[i].id])
  /\ \A i \in DOMAIN m.modules : m.modules[i].steps # <<>>
  /\ IsInjective(ListedIn(m.modules))

------------------------------------------------------------------------------
(* loader.ts *)

Error(what) == [level |-> "error", what |-> what]
Warning(what) == [level |-> "warning", what |-> what]

(* Errors in a step file cost the step, not the course; a course none of whose steps *)
(* is left is dropped.  German stands in for English where that is missing.          *)
LoadCoursePack(pack) ==
  IF ~ValidateManifest(pack.manifest)
  THEN [course |-> None, diagnostics |-> {Error(<<"course.json">>)}]
  ELSE
    LET m == pack.manifest
        listed == Range(ListedIn(m.modules))
        valid == {f \in DOMAIN pack.files : ValidateStep(pack.files[f], f[1])}
        steps == {f[1] : f \in valid} \cap listed
        english == {s \in steps : <<s, "en">> \in valid}
        meta == [s \in steps |-> pack.files[<<s, IF s \in english THEN "en" ELSE "de">>]]
        TaskIds(f) == [i \in DOMAIN pack.files[f].tasks |-> pack.files[f].tasks[i].id]
        errors == {<<"no step files">> : x \in IF DOMAIN pack.files = {} THEN {0} ELSE {}}
                  \cup {<<"invalid", f>> : f \in DOMAIN pack.files \ valid}
                  \cup {<<"no valid step file", s>> : s \in listed \ steps}
                  \cup UNION {{<<"requires unknown", s, r>> : r \in meta[s].requires \ steps} : s \in steps}
        warnings == {<<"not listed", f>> : f \in {g \in valid : g[1] \notin listed}}
                    \cup {<<"no English variant", s>> : s \in steps \ english}
                    \cup {<<"task ids differ", s>> : s \in {t \in english :
                            <<t, "de">> \in valid /\ TaskIds(<<t, "en">>) # TaskIds(<<t, "de">>)}}
    IN  [course |-> IF steps = {} THEN None
                    ELSE [id |-> m.id, prerequisites |-> m.prerequisites,
                          modules |-> m.modules, steps |-> meta],
         diagnostics |-> {Error(e) : e \in errors} \cup {Warning(w) : w \in warnings}]

(* A directory is a pack itself or a folder of packs, in the order of their names. *)
PackDirsIn(source) == IF source.self # NoPack THEN <<source.self>> ELSE source.packs

CollectSources(found) ==
  LET From(origin) == IF origin \in DOMAIN found THEN PackDirsIn(found[origin]) ELSE <<>>
  IN  From("extension") \o From("image") \o From("user") \o From("workspace") \o From("setting")

Ids(courses) == {courses[i].id : i \in DOMAIN courses}

(* The first copy of a course that loads is taken. *)
TakeFirstNamed(acc, pack) ==
  LET new == LoadCoursePack(pack)
      id == IF pack.manifest = NoManifest THEN None ELSE pack.manifest.id
  IN  [courses |-> IF new.course = None \/ id \in acc.seen THEN acc.courses
                   ELSE Append(acc.courses, new.course),
       seen |-> acc.seen \cup {id},
       diagnostics |-> acc.diagnostics \cup new.diagnostics]

Take(acc, pack) ==
  LET new == LoadCoursePack(pack)
      shadowed == new.course # None /\ new.course.id \in acc.seen
  IN  [courses |-> IF new.course = None \/ shadowed THEN acc.courses
                   ELSE Append(acc.courses, new.course),
       seen |-> acc.seen \cup IF new.course = None THEN {} ELSE {new.course.id},
       diagnostics |-> acc.diagnostics \cup new.diagnostics
                       \cup IF shadowed THEN {Warning(<<"already provided", new.course.id>>)} ELSE {}]

LoadCourses(found) ==
  LET all == FoldLeft(Take, [courses |-> <<>>, seen |-> {}, diagnostics |-> {}], CollectSources(found))
      unknown == UNION {all.courses[i].prerequisites : i \in DOMAIN all.courses} \ Ids(all.courses)
  IN  [courses |-> all.courses,
       diagnostics |-> all.diagnostics \cup {Warning(<<"unknown prerequisite", p>>) : p \in unknown}]
=============================================================================
