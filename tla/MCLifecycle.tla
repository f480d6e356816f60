---------------------------- MODULE MCLifecycle ----------------------------
(* Small instances of Lifecycle for TLC.                                    *)
EXTENDS Lifecycle

Plain == NoOptions
MCOptionsPlain == {Plain}

(* Runs of up, run-user-commands and set-up that differ in what they do.   *)
MCOptionsAll ==
  {[Plain EXCEPT !.prebuild = TRUE, !.dotfiles = TRUE],
   [Plain EXCEPT !.skipPostAttach = TRUE, !.dotfiles = TRUE],
   [Plain EXCEPT !.command = "run-user-commands", !.skipNonBlocking = TRUE, !.waitFor = PostCreate]}

(* One command for each hook.                                               *)
MCCommandsOne == [h \in Phases |-> <<{1}>>]

(* A Feature's command and the configuration's, one of them an object with  *)
(* parallel parts, one an object whose parts are all empty, two hooks with  *)
(* no command.                                                              *)
MCCommandsParallel ==
  [h \in Phases |->
     CASE h = UpdateContent -> <<{1}, {1, 2}>>
       [] h = PostStart -> <<{}, {1}>>
       [] h = PostAttach -> <<{1}>>
       [] OTHER -> << >>]
=============================================================================
