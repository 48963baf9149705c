--------------------------- MODULE MCMigrations ---------------------------
(***************************************************************************)
(* Instances of Migrations for TLC: blog declares one table in several     *)
(* versions, analytics has data migrations that depend on those of blog.   *)
(***************************************************************************)
EXTENDS Migrations, TLC

Class(key, fields) == [pk_name |-> key, fields |-> fields]
Post(fields) == "post" :> Class(NoName, fields)
Nothing == [t \in {} |-> NoName]

MCTableOrder == <<"post">>
MCColumnOrder == <<"id", "x", "y">>
MCAppOrder == <<"analytics", "blog">>
MCMaxFiles == [a \in Apps |-> IF a = "blog" THEN 2 ELSE 1]

V1 == Post("x" :> "int")
V2 == Post("x" :> "int" @@ "y" :> "int")
V3 == Post("x" :> "str" @@ "y" :> "int")
OneTable == [a \in Apps |-> IF a = "blog" THEN {Nothing, V1, V2, V3} ELSE {Nothing}]
Versions == [a \in Apps |-> IF a = "blog" THEN {V1, V2, V3} ELSE {Nothing}]

DataOnly == [a \in Apps |-> IF a = "blog" THEN {} ELSE {<<RunPython(TRUE)>>}]
NoneByHand == [a \in Apps |-> {}]

Migrate(app, target, flag) == [app |-> app, target |-> target, flag |-> flag]
All(flag) == Migrate(AllApps, NoTarget, flag)
CONSTANTS m1, m2
TwoRequests == (m1 :> {All("fake_initial"), Migrate("blog", 1, "fake"),
                       Migrate("analytics", NoTarget, "dry_run"), Migrate(AllApps, 0, "none")})
               @@ (m2 :> {All("none")})
OneRequest == m1 :> {All("none"), Migrate("blog", 1, "none")}
=============================================================================
