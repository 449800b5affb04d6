----------------------------- MODULE MCPlatform -----------------------------
(***************************************************************************)
(* What every application is built on: the lease lock, the migrations, the *)
(* transactions, the assembly of features and routes, and the views and    *)
(* preferences people keep. None of them touches another's state, so a     *)
(* behaviour is a behaviour of one of them: `scene` names it and the       *)
(* others stay in their initial state.                                     *)
(***************************************************************************)
EXTENDS LeaseLock, Database, Assembly, PersonalStores, TLC

CONSTANTS h1, h2

VARIABLE scene

Even == [h \in Holders |-> 0]

\* Three releases on two databases.  The second adds a version older than one the first
\* has, as a merged branch does; the third has two files with one version.
MCConns == <<"local", "shared">>
File(c, v, f) == [conn |-> c, version |-> v, file |-> f]
MCReleases == <<{File("local", 1, "a"), File("local", 3, "b")},
                {File("local", 1, "a"), File("local", 2, "c"), File("local", 3, "b"), File("shared", 1, "d")},
                {File("local", 1, "a"), File("local", 1, "e")}>>

MCPermissions == {"read", "write"}
MCPrefix == <<Literal("api")>>

\* A guarded route and its sibling in one contract, the same path at the root,
\* routes that clash in the router, and every mistake a declaration can make.
MCDeclared ==
  LET one == <<Literal("a"), Param("id")>>
      byId == Struct({"id"})
  IN {InGroup(Requires(Requires(declare("get", "GET", one, byId), "read"), "write"), "c"),
      Excuses(InGroup(RequiresAny(declare("put", "PUT", one, byId), <<"read", "write">>), "c"), {"get"}),
      PersonOnly(declare("mine", "GET", one, byId)),
      [PersonOnly(Raw("root", "GET", <<Literal("health")>>)) EXCEPT !.root = TRUE],
      Public(declare("open", "GET", <<Literal("a"), CatchAll("rest")>>, Struct({"rest"}))),
      Public(Requires(declare("both", "GET", <<Literal("b")>>, NoInput), "read")),
      Requires(declare("unknown", "GET", <<Literal("b")>>, NoInput), "gone"),
      RequiresAny(declare("blank", "GET", <<Literal("b")>>, NoInput), <<"">>),
      declare("undeclared", "GET", <<Literal("b")>>, NoInput),
      Public(declare("nopath", "GET", <<Literal("b"), Param("id")>>, NoInput)),
      Public(declare("value", "GET", <<Literal("b")>>, NotAStruct)),
      [Requires(declare("own", "GET", <<Literal("c")>>, NoInput), "read")
         EXCEPT !.own = {[authenticate |-> 1, authorizer |-> {}]}],
      [Authenticated(declare("bare", "GET", <<Literal("c")>>, NoInput))
         EXCEPT !.own = {[authenticate |-> 0, authorizer |-> {}]}]}

OnPrimary(f, m) == [conn |-> "primary", files |-> f, models |-> m]
MCSources == {OnPrimary("a", TRUE), OnPrimary("b", FALSE), [conn |-> "gone", files |-> "a", models |-> TRUE]}
MCConsumers == {[name |-> n, event |-> "e", payload |-> p] : n \in {"x", "y"}, p \in {1, 2}}
MCDisks == {[name |-> "d", public |-> {<<Literal("files")>>}], [name |-> "p", public |-> {}]}
MCCallers == {[kind |-> "nobody", holds |-> {}]}
             \cup {[kind |-> k, holds |-> h] : k \in {"person", "service"}, h \in {{}, {"read"}, {"read", "write"}}}

MCOptions == {[authenticate |-> n, authorizer |-> z, offline |-> FALSE, registry |-> "open", autoMigrate |-> n = 1 /\ z # {}]
                : n \in {0, 1}, z \in {{}, {"option"}}}
             \cup {[authenticate |-> 1, authorizer |-> {}, offline |-> o, registry |-> "none", autoMigrate |-> ~o] : o \in BOOLEAN}

\* A setting, another, one taken away, none, and two at once.
MCPatches ==
    {MP!Object("dark" :> MP!Scalar("on")), MP!Object("tips" :> MP!Scalar("seen")), MP!Object("dark" :> MP!Null), MP!Null,
     MP!Object(("dark" :> MP!Scalar("off")) @@ ("lang" :> MP!Scalar("hr")))}
MCViewIds == 1..3

PlatformInit ==
    /\ scene \in {"lock", "migrations", "database", "assembly", "personal"}
    /\ Init /\ MigrationsInit /\ DbInit /\ AssemblyInit /\ PersonalInit
    /\ scene # "assembly" => app = New(CHOOSE o \in Options : TRUE)
    /\ scene # "personal" => prefs = [u \in Persons |-> {}]

LockStep == scene = "lock" /\ Next /\ UNCHANGED <<scene, migrateVars, dbVars, assemblyVars, psVars>>
MigrateStep == scene = "migrations" /\ MigrationsNext /\ UNCHANGED <<scene, vars, dbVars, assemblyVars, psVars>>
DatabaseStep == scene = "database" /\ DbNext /\ UNCHANGED <<scene, vars, migrateVars, assemblyVars, psVars>>
AssemblyStep == scene = "assembly" /\ AssemblyNext /\ UNCHANGED <<scene, vars, migrateVars, dbVars, psVars>>
PersonalStep == scene = "personal" /\ PersonalNext /\ UNCHANGED <<scene, vars, migrateVars, dbVars, assemblyVars>>

PlatformNext == LockStep \/ MigrateStep \/ DatabaseStep \/ AssemblyStep \/ PersonalStep
PlatformSpec == PlatformInit /\ [][PlatformNext]_<<scene, vars, migrateVars, dbVars, assemblyVars, psVars>>

-----------------------------------------------------------------------------
=============================================================================
