------------------------------ MODULE Diagnosis ------------------------------
(***************************************************************************)
(* From what went wrong to what the window says: the transport's checks    *)
(* and its reading of the output of ssh and scp (transfer.cpp), the        *)
(* application's choice of words for it (main.cpp), and their translation  *)
(* (ui_events.cpp).                                                        *)
(*                                                                         *)
(* A cause is what really happened.  What ssh, scp and the commit command  *)
(* write about it is external; of their output only the phrases the code   *)
(* looks for are modelled, and whether they are among the bytes it keeps.  *)
(***************************************************************************)

\* ssh or scp could not log in, or lost the receiver.
ConnectionCauses == {"password rejected", "host key changed", "host unreachable",
                     "link lost"}

\* The receiver did not take the file.
ReceiverCauses == {"directory unwritable", "disk full", "no answer"}

\* Refused before any command is run, by the token of the refusal.
ConfigTokens == {"invalid_host", "invalid_username", "invalid_port",
                 "invalid_password", "known_hosts_missing", "invalid_key_path"}
SourceTokens == {"source_changed", "random_source_unavailable"}

\* The phrases that a command writes about a cause.
Phrases(cause) ==
    CASE cause = "password rejected"    -> {"Permission denied"}
      [] cause = "directory unwritable" -> {"Permission denied"}
      [] cause = "host key changed"     -> {"Host key verification failed"}
      [] cause = "host unreachable"     -> {"No route to host"}
      [] cause = "link lost"            -> {"Connection reset"}
      [] OTHER -> {}

ConnectionPhrases == {"No route to host", "Connection reset"}

\* Mutant: connection errors are not told from others.
ClassifyConnected(found, connected) ==
    IF "Permission denied" \in found THEN "authentication"
    ELSE IF "Host key verification failed" \in found THEN "host_key"
    ELSE IF connected THEN "file" ELSE "connection"

\* classify_ssh_error()
ClassifySshError(found, connected) ==
    IF "Permission denied" \in found THEN "authentication"
    ELSE IF "Host key verification failed" \in found THEN "host_key"
    ELSE IF found \cap ConnectionPhrases # {} \/ ~connected THEN "connection"
    ELSE "file"

\* generic_failure_message()
GenericFailureMessage(kind, transfer) ==
    CASE kind = "authentication" -> "SSH authentication failed"
      [] kind = "host_key"       -> "SSH host key verification failed"
      [] kind = "connection"     -> "SSH connection failed"
      [] kind = "file" -> IF transfer THEN "OpenSSH file transfer failed"
                                      ELSE "OpenSSH remote operation failed"

Failure(message, kind) == [message |-> message, kind |-> kind]
Success == Failure("", "none")

\* validate_config()
ConfigFailure(token) ==
    Failure(token,
            CASE token \in {"invalid_host", "invalid_port"} -> "connection"
              [] token \in {"invalid_username", "invalid_password"} -> "authentication"
              [] OTHER -> "host_key")

\* append_bounded(): what is kept of the output is its first 16 KiB.
Diagnostic(cause, kept) == IF kept THEN Phrases(cause) ELSE {}

\* A command has failed.
CommandFailure(cause, kept, connected, transfer) ==
    LET kind == ClassifySshError(Diagnostic(cause, kept), connected)
    IN  Failure(GenericFailureMessage(kind, transfer), kind)

\* How test_connection() and transfer() can fail, apart from an abort.
TestFailures(cause) ==
    IF cause \in ConfigTokens THEN {ConfigFailure(cause)}
    ELSE {CommandFailure(cause, TRUE, FALSE, FALSE)}

TransferFailures(cause, kept) ==
    IF cause \in ConfigTokens THEN {ConfigFailure(cause)}
    ELSE IF cause = "random_source_unavailable" THEN {Failure(cause, "unknown")}
    ELSE IF cause \in {"source_changed", "destination_file_exists",
                       "invalid_remote_directory"} THEN {Failure(cause, "file")}
    ELSE {CommandFailure(cause, kept, TRUE, TRUE), CommandFailure(cause, TRUE, TRUE, FALSE)}

-----------------------------------------------------------------------------
(* main.cpp and ui_events.cpp                                               *)

UiDetail(failure) ==
    IF failure.kind \in {"authentication", "host_key"} THEN failure.kind
    ELSE failure.message

DegradesConnection(kind) == kind \in {"authentication", "host_key", "connection"}

\* The tokens with a text of their own, and those without.
Translations ==
    [authentication |-> "errors.authentication", host_key |-> "errors.host_key",
     source_file_missing |-> "errors.source_file_missing",
     destination_file_exists |-> "errors.remote_file_exists",
     known_hosts_missing |-> "errors.known_hosts_missing",
     connection_not_tested |-> "connection.test_required",
     transfer_active |-> "errors.transfer_active",
     invalid_remote_directory |-> "errors.remote_directory_invalid",
     invalid_host |-> "validation.host_required",
     invalid_username |-> "validation.username_required",
     invalid_password |-> "validation.password_required",
     invalid_port |-> "validation.port_range"]
OtherTokens == {"invalid_key_path", "source_changed", "random_source_unavailable",
                "operation_cancelled"}

\* localized_backend_message(), for the result of a transfer.
LocalizedBackendMessage(message) ==
    IF message \in DOMAIN Translations THEN Translations[message]
    ELSE IF message \in OtherTokens THEN "errors.unexpected"
    ELSE "errors.transfer"
=============================================================================
