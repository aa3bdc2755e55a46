-------------------------- MODULE MCRemoteCommand ---------------------------
EXTENDS RemoteCommand
Form(tty, stdin, stdout, stderr) ==
    [tty |-> tty, stdin |-> stdin, stdout |-> stdout, stderr |-> stderr]
(* Nothing, stdout, all three, a terminal with stderr asked for as well. *)
MCForms == {Form(FALSE, FALSE, FALSE, FALSE), Form(FALSE, FALSE, TRUE, FALSE),
            Form(FALSE, TRUE, FALSE, TRUE), Form(TRUE, FALSE, TRUE, TRUE)}
MCProtocols == {"v1", "v2", "v3", "v4", "v5", "other", "websocket",
                "v4.websocket"}
=============================================================================
