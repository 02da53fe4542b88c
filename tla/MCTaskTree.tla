------------------------------ MODULE MCTaskTree ------------------------------
(* Small dependency graphs for TaskTree. *)
EXTENDS TaskTree

\* Two panel tasks that share a build step, one of them directly and through
\* a second build step.
SharedTask == {"app", "cron", "lib", "gen"}
SharedDependsOn == [t \in SharedTask |->
  CASE t = "app" -> <<"gen", "lib">>
    [] t = "cron" -> <<"lib">>
    [] t = "gen" -> <<"lib">>
    [] OTHER -> <<>>]

\* A preview the dev proxy starts, which needs a code generator and an API
\* that needs a code generator too; the shared code server stands alone.
PreviewTask == {"preview", "api", "gen", "code"}
PreviewDependsOn == [t \in PreviewTask |->
  CASE t = "preview" -> <<"api", "gen">>
    [] t = "api" -> <<"gen">>
    [] OTHER -> <<>>]

=============================================================================
