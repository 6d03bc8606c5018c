----------------------------- MODULE ReviveCli -----------------------------
(***************************************************************************)
(* packages/cli: `reviveos init` in a merchant's project, run any number   *)
(* of times while the merchant fills in .env.                              *)
(*                                                                         *)
(* A file's content is what the SDK tells apart: the settings an env file  *)
(* gives, and which handler files there are.                               *)
(***************************************************************************)
EXTENDS Naturals

CONSTANT Projects  \* the merchants' projects a run starts from

VARIABLES
  project,    \* what scanProject reads in the merchant's directory
  env,        \* the settings of .env, or NoFile
  template,   \* whether .env.reviveos exists
  handlers    \* the paths of the webhook handler files

cliVars == <<project, env, template, handlers>>

Deps == {"next", "express", "fastify"}
Frameworks == {"nextjs-app", "nextjs-pages", "express", "fastify", "node"}
Routers == {"nextjs-app", "nextjs-pages", "express"}

(* typed: a typescript dependency or a tsconfig.json; under: the sources   *)
(* are below src/.                                                         *)
Project == [node : BOOLEAN, deps : SUBSET Deps, nextConfig : BOOLEAN,
            appDir : BOOLEAN, typed : BOOLEAN, under : BOOLEAN]

(* Without REVIVEOS_MODE the SDK runs live; a merchant's own .env has      *)
(* none of the settings until the merchant adds them.                      *)
NoFile == [key |-> "none", secret |-> "none", mode |-> "none"]
OwnEnv == [key |-> "none", secret |-> "none", mode |-> "live"]
Settings == [key : {"none", "seeded"}, secret : {"none", "placeholder", "real"},
             mode : {"none", "live", "mock"}]

Path == [router : Routers, typed : BOOLEAN, under : BOOLEAN]

ASSUME CliAssumption == Projects \subseteq Project

CliTypeOK ==
  /\ project \in Project
  /\ env \in Settings
  /\ template \in BOOLEAN
  /\ handlers \subseteq Path

(* The project may have an .env of its own.                                *)
CliInit ==
  /\ project \in Projects
  /\ env \in {NoFile, OwnEnv}
  /\ template = FALSE
  /\ handlers = {}

(* scanProject: a project without package.json is "node"; Next.js wins     *)
(* over express, express over fastify.                                     *)
ScanFramework(p) ==
  LET next == "next" \in p.deps \/ p.nextConfig
  IN  CASE ~p.node -> "node"
        [] p.node /\ next /\ p.appDir -> "nextjs-app"
        [] p.node /\ next /\ ~p.appDir -> "nextjs-pages"
        [] p.node /\ ~next /\ "express" \in p.deps -> "express"
        [] p.node /\ ~next /\ "express" \notin p.deps ->
             IF "fastify" \in p.deps THEN "fastify" ELSE "node"

(* The contents of the generated env file.                                 *)
EnvTemplate == [key |-> "seeded", secret |-> "placeholder", mode |-> "live"]

(* .env.reviveos is always written, .env only when there is none.          *)
GenerateEnvironmentFile ==
  /\ template' = TRUE
  /\ env' = IF env = NoFile THEN EnvTemplate ELSE env

(* The path of the handler: fastify and plain Node projects fall into the  *)
(* express branch.                                                         *)
HandlerPath(p) ==
  [router |-> IF ScanFramework(p) \in Routers THEN ScanFramework(p) ELSE "express",
   typed |-> p.typed, under |-> p.under]

(* The file is written over whatever is there.                             *)
GenerateWebhookHandler == handlers' = handlers \cup {HandlerPath(project)}

(* runInit returns before writing anything when there is no package.json.  *)
RunInit ==
  /\ project.node
  /\ GenerateEnvironmentFile
  /\ GenerateWebhookHandler
  /\ UNCHANGED project

(* The merchant fills in .env, as the printed next steps ask.              *)
SetSecret ==
  /\ env # NoFile
  /\ env' = [env EXCEPT !.secret = "real"]
  /\ UNCHANGED <<project, template, handlers>>

SetKey ==
  /\ env # NoFile
  /\ env' = [env EXCEPT !.key = "seeded"]
  /\ UNCHANGED <<project, template, handlers>>

UseMockMode ==
  /\ env # NoFile
  /\ env' = [env EXCEPT !.mode = "mock"]
  /\ UNCHANGED <<project, template, handlers>>

CliNext == RunInit \/ SetSecret \/ SetKey \/ UseMockMode
=============================================================================
