---------------------------- MODULE MCMainCommand ----------------------------
(* MainCommand for TLC: for every verb the arguments that its parser tells
   apart, flags as words of the tool among them. *)
EXTENDS MainCommand

A == <<"a">>        \* an image, a value, a container of somebody else's
C == <<"c">>        \* a netcage tool container
S == <<"s">>        \* its sidecar
End == <<"--">>

MCArguments ==
    ("run" :> {A, End, <<"-it">>, <<"-w">>, <<"-v", "repo">>, <<"--read-only">>,
               <<"--hostname">>, <<"-e", "a">>, <<"--allow", "a">>, <<"--privileged">>,
               <<"--network", "host">>}) @@
    ("start" :> {C, <<"--proxy">>, <<"-i">>, <<"--rm">>, <<"-e", "a">>, <<"-u", "">>,
                 <<"--memory">>}) @@
    ("verify" :> {A, <<"--proxy">>, <<"--allow", "a">>}) @@
    ("exec" :> {A, C, End, <<"-t">>, <<"-w">>, <<"-w", "a">>, <<"--env", "a">>, <<"-x">>,
                <<"--tty", "false">>}) @@
    ("commit" :> {A, C, S, End, <<"-c">>, <<"--message", "a">>, <<"--pause", "false">>,
                  <<"--pause", "1">>, <<"-q">>}) @@
    ("inspect" :> {C, S, End, <<"-f">>, <<"--format", "a">>, <<"-s">>}) @@
    ("forward" :> {C, <<"80">>, <<"80:90">>, <<"0:1:2">>, <<"--bind">>, <<"0.0.0.0">>}) @@
    ("ports" :> {C, <<"--json">>, End}) @@
    ("detect-proxy" :> {A, <<"--json">>}) @@
    ("setup-default" :> {A}) @@
    ("ps" :> {<<"-q">>, <<"--filter">>, <<"label", "a">>}) @@
    ("images" :> {A}) @@
    ("build" :> {A, <<"--root">>, <<"--root", "a">>}) @@
    ("pull" :> {A, <<"--root">>}) @@ ("load" :> {A}) @@
    ("logs" :> {C, A}) @@ ("stop" :> {S, A}) @@
    ("rm" :> {C, A, <<"-f">>})

MCPortParts ==
    [t \in {"80", "80:90", "0:1:2", "a", "c", "0.0.0.0", "--bind"} |->
        CASE t = "80" -> <<80>> [] t = "80:90" -> <<80, 90>>
          [] t = "0:1:2" -> <<0, 1, 2>> [] OTHER -> <<0>>]

(* A verify past its parse has no use for its arguments; the other verbs none
   for the world the leak test is in. *)
View ==
    IF verb # "verify" THEN <<cmdVars>>
    ELSE IF phase \in {"scan", "parsed"} THEN <<cmdVars, leakVars>>
    ELSE <<phase, exit, leakVars>>
=============================================================================
