---------------------------- MODULE DataplaneAPI ----------------------------
(***************************************************************************)
(* The HAProxy Data Plane API as kube-haproxy sees it: the answers to its   *)
(* calls and what handleError (haproxy/haproxy.go) makes of each status     *)
(* code.  The server itself is not part of the repository; the operators    *)
(* Post, Put, Delete and Disturbed are modelled from the way haproxy.go     *)
(* uses it.                                                                 *)
(*                                                                         *)
(* An answer says which status code the caller sees and whether the        *)
(* configuration was changed: the two may disagree when the connection     *)
(* breaks after the change was accepted.                                   *)
(***************************************************************************)

Codes == {"accepted", "noContent", "badRequest", "notFound", "conflict",
          "unknown", "unreachable"}

Answer == [code : Codes, applied : BOOLEAN]

Reply(code, applied) == [code |-> code, applied |-> applied]

(***************************************************************************)
(* handleError: the pair (bool, error) that every writing call returns.     *)
(* 0, 200, 201 and 202 ("accepted" here) are a success; 204 and 409 yield  *)
(* true together with an error value; every other code, and a transport    *)
(* error, yield false.                                                     *)
(***************************************************************************)
HandleError(code) == [ok  |-> code \in {"accepted", "noContent", "conflict"},
                      err |-> code # "accepted"]

(* A mutant: a creating call judged by its error alone.                      *)
AddSucceededStrictly(code) == ~HandleError(code).err

(* The creating calls are judged by "err != nil && !ok", the replacing calls *)
(* by "err != nil", the deletion of a server by "err != nil || !ok".         *)
AddSucceeded(code)     == ~(HandleError(code).err /\ ~HandleError(code).ok)
ReplaceSucceeded(code) == ~HandleError(code).err
DeleteSucceeded(code)  == ~(HandleError(code).err \/ ~HandleError(code).ok)

(* The undisturbed answers of the server to the creation of an object, to its *)
(* replacement and to its deletion.                                        *)
Post(exists, valid) ==
  IF ~valid THEN {Reply("badRequest", FALSE)}
  ELSE IF exists THEN {Reply("conflict", FALSE)}
  ELSE {Reply("accepted", TRUE)}

Put == {Reply("accepted", TRUE)}

Delete(exists) ==
  IF exists THEN {Reply("accepted", TRUE), Reply("noContent", TRUE)}
  ELSE {Reply("notFound", FALSE)}

(***************************************************************************)
(* What a disturbed call may see instead: a stale configuration version    *)
(* (another client wrote between getVersion and the call, or getVersion     *)
(* failed and -1 was sent) is refused with 409; the server may be           *)
(* unreachable; or the answer may be lost after the change was made.        *)
(***************************************************************************)
Disturbed(answers) ==
  {Reply("conflict", FALSE), Reply("unreachable", FALSE)}
    \cup {Reply("unreachable", a.applied) : a \in answers}

(* An attempted call: an answer, and the number of faults it took to get it. *)
Attempts(answers) ==
  {[answer |-> a, cost |-> 0] : a \in answers}
    \cup {[answer |-> a, cost |-> 1] : a \in Disturbed(answers)}
=============================================================================
