------------------------------- MODULE Errors -------------------------------
(***************************************************************************)
(* From a result of the resource manager to the exception it is thrown as  *)
(* (SCardCall.hpp) and to the handlers that catch it (the class hierarchy  *)
(* in pcsc-cpp.hpp).                                                       *)
(***************************************************************************)

\* The classes below ScardError; every one of them is caught as such.
ScardErrors == {"ScardError", "ScardServiceNotRunningError", "ScardNoReadersError",
                "ScardNoCardError", "ScardCardCommunicationFailedError",
                "ScardCardRemovedError", "ScardTransactionFailedError"}

\* What a handler for references to class catches.
CaughtBy(class) ==
    CASE class = "ScardError" -> ScardErrors
      [] class = "Error"      -> ScardErrors \cup {"Error", "SystemError"}
      [] OTHER                -> {class}

Exception(result) ==
    CASE result \in {"SCARD_E_NO_SERVICE", "SCARD_E_SERVICE_STOPPED"} ->
            "ScardServiceNotRunningError"
      [] result \in {"SCARD_E_NO_READERS_AVAILABLE", "SCARD_E_READER_UNAVAILABLE"} ->
            "ScardNoReadersError"
      [] result = "SCARD_E_NO_SMARTCARD" -> "ScardNoCardError"
      [] result \in {"SCARD_E_NOT_READY", "SCARD_E_INVALID_VALUE",
                     "SCARD_E_COMM_DATA_LOST", "SCARD_W_RESET_CARD"} ->
            "ScardCardCommunicationFailedError"
      [] result = "SCARD_W_REMOVED_CARD" -> "ScardCardRemovedError"
      [] result = "SCARD_E_NOT_TRANSACTED" -> "ScardTransactionFailedError"
      [] OTHER -> "ScardError"
=============================================================================
