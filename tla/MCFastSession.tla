--------------------------- MODULE MCFastSession ---------------------------
EXTENDS FastSession, TLC

(* Every event the handlers can tell apart. *)
AllEvents == Events

(* Main-frame events of well-behaved app pages that come, navigate, load,  *)
(* ask for their scripts and go: what several pages do to each other.      *)
PageEvents ==
    UNION {{e \in AttachedToTarget : e.appPage /\ e.waiting},
           SessionDetached,
           {e \in FrameNavigated : e.frame = "main" /\ e.loader # NoLoader},
           {e \in ScriptRequest : /\ e.frame = "main" /\ e.loader # NoLoader
                                  /\ e.request # NoRequest},
           {e \in LoadFired : e.frame = "main" /\ e.loader = NoLoader},
           {e \in RequestPaused : /\ e.session # NoSession /\ e.resource # Unplanned
                                  /\ e.requestStage /\ e.script
                                  /\ e.frame = "main" /\ e.request # NoRequest}}

(* The same, and only app documents commit. *)
AppEvents == {e \in PageEvents : e.method = "frameNavigated" => e.url = "app"}

LoaderSymmetry == Permutations(Loaders)
=============================================================================
