------------------------------- MODULE MCChecks -------------------------------
(* A course of one step with a task per kind of check, copies of it that are    *)
(* broken in one way each, and a course with a step in German only.             *)
EXTENDS Checks, TLC

Leaf(type, arg) == <<>> :> [type |-> type, arg |-> arg, parts |-> 0]
Composed(type, checks) ==
  LET below == UNION {{<<i>> \o p : p \in DOMAIN checks[i]} : i \in DOMAIN checks}
  IN  [p \in {<<>>} \cup below |->
         IF p = <<>> THEN [type |-> type, arg |-> "", parts |-> Len(checks)]
         ELSE checks[Head(p)][Tail(p)]]
AllOf(checks) == Composed("all", checks)
AnyOf(checks) == Composed("any", checks)

Source == Leaf("fileMatches", "source")
TheTasks ==
  <<[id |-> "t1", check |-> AnyOf(<<Leaf("serialExpect", "send"), Leaf("board", "halted")>>)],
    [id |-> "t2", check |-> AllOf(<<Leaf("manual", ""), Leaf("task", "build"), Leaf("symbolInElf", "elf")>>)],
    [id |-> "t3", check |-> AnyOf(<<Leaf("flash", "stepStart"), AllOf(<<Leaf("question", ""), Source>>)>>)],
    [id |-> "t4", check |-> AllOf(<<Leaf("debugStop", "main"), Leaf("serialExpect", "listen")>>)],
    [id |-> "t5", check |-> AnyOf(<<Leaf("fileNotMatches", "source"), Leaf("debugStop", "anywhere"),
                                  Leaf("build", "missing")>>)]>>

FrontMatter(id, tasks) == [wellFormed |-> TRUE, id |-> id, requires |-> {}, tasks |-> tasks]
One(id, check) == FrontMatter(id, <<[id |-> "t1", check |-> check]>>)
Manifest(id, steps) == [wellFormed |-> TRUE, schema |-> 1, id |-> id, prerequisites |-> {"first"},
                        modules |-> <<[id |-> "m1", steps |-> steps]>>]
Pack(id, steps, files) == [manifest |-> Manifest(id, steps), files |-> files]

En(s) == <<s, "en">>
De(s) == <<s, "de">>

Good == Pack("zero", <<"s1">>, En("s1") :> FrontMatter("s1", TheTasks) @@ De("s1") :> FrontMatter("s1", <<>>))
Small(check) == Pack("zero", <<"s1">>, En("s1") :> One("s1", check))
Broken == <<Small(AllOf(<<>>)), Small(AnyOf(<<Leaf("board", "upside down"), Source>>)), Small(Leaf("guess", "")),
            Pack("zero", <<"s1", "s1">>, En("s1") :> FrontMatter("s1", <<>>)),
            Pack("zero", <<"s1">>, En("s1") :> FrontMatter("s2", <<>>)),
            [manifest |-> NoManifest, files |-> <<>>]>>
Partial == Pack("zero", <<"s1", "s2">>, De("s2") :> One("s2", AllOf(<<Source, AnyOf(<<Leaf("manual", ""), Source>>)>>))
                                        @@ En("s1") :> NoFrontMatter)
Second == Small(AnyOf(<<Leaf("flash", "sessionStart"), Leaf("board", "connected")>>))

Folder(packs) == [self |-> NoPack, packs |-> packs]
Is(pack) == [self |-> pack, packs |-> <<>>]
MCFound == {("image" :> Folder(Broken)) @@ ("workspace" :> Is(Good)),
            ("user" :> Is(Partial)) @@ ("workspace" :> Is(Good)),
            ("image" :> Is(Broken[1])) @@ ("setting" :> Folder(<<Second, Good>>))}
=============================================================================
