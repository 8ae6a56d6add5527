----------------------------- MODULE KeyProvider -----------------------------
(***************************************************************************)
(* A signing key that an external provider holds (crypto_keystore.rs),     *)
(* reached through one framed exchange with a sandboxed process for each   *)
(* operation (component_host.rs).  The provider's executable may be        *)
(* replaced and its device may change keys between any two steps, and what *)
(* the process writes may reach the host cut short or with more after it.  *)
(*                                                                         *)
(* A message is its length.  A signature says which key signed which       *)
(* message; the identifier of a public key is the key.                     *)
(***************************************************************************)
EXTENDS Integers, FiniteSets

CONSTANTS Keys, Handles,             \* a handle is its length
          Slot,                      \* the handle the device knows
          MessageSizes,
          HEADER_BYTES, MAX_HANDLE_BYTES, COMPONENT_MESSAGE_BYTES,
          MaxCalls, MaxChanges       \* bounds: operations, disturbances

VARIABLES executable,  \* what the provider's path holds: "real" the provider, "other" another program, or "missing"
          device,      \* the key in the device's slot
          key,         \* HardwareEd25519Key, or Closed
          invocation,  \* the operation in progress, or Idle
          outcome,     \* what the last operation returned
          invocations, changes

signing_vars == <<executable, device, key, invocation, outcome, invocations, changes>>

Closed == [handle |-> 0]
Idle == [op |-> "none"]
PublicKeyBytes == 32
SignatureBytes == 64
Failure(error) == [error |-> error]
Success(value) == [error |-> "none", value |-> value]

MAX_KEYSTORE_MESSAGE_BYTES == COMPONENT_MESSAGE_BYTES - HEADER_BYTES - 2 - MAX_HANDLE_BYTES

\* One message has room for the longest handle and for a signature.
ASSUME SigningAssumption ==
    /\ MessageSizes \subseteq Nat /\ MaxChanges \in Nat
    /\ HEADER_BYTES \in Nat /\ MAX_HANDLE_BYTES \in Nat /\ COMPONENT_MESSAGE_BYTES \in Nat
    /\ MAX_KEYSTORE_MESSAGE_BYTES >= 0 /\ HEADER_BYTES + SignatureBytes <= COMPONENT_MESSAGE_BYTES

-----------------------------------------------------------------------------
(* Requests, responses and their frames                                     *)

ValidHandle(h) == h \in 1 .. MAX_HANDLE_BYTES
ValidMessage(op, message) == message <= MAX_KEYSTORE_MESSAGE_BYTES /\ (op = "public_key" => message = 0)

encode_request(op, handle, message) == [op |-> op, handle |-> handle, message |-> message]
RequestBytes(request) == HEADER_BYTES + 2 + request.handle + request.message
\* The same bounds are tested when a request is made.
decode_request(request) == ValidHandle(request.handle) /\ ValidMessage(request.op, request.message)

ProviderResponse(op, status, value, bytes) == [op |-> op, status |-> status, value |-> value, bytes |-> bytes]
Size(op) == IF op = "public_key" THEN PublicKeyBytes ELSE SignatureBytes
decode_response(op, response) ==
    IF response.op # op \/ response.bytes # (IF response.status # 0 THEN 0 ELSE Size(op)) THEN Failure("protocol")
    ELSE IF response.status # 0 THEN Failure("rejected") ELSE Success(response.value)

\* A frame declares its length; more or less may arrive.
encode_frame(response) == [response |-> response, missing |-> FALSE, trailing |-> FALSE]
damaged_frame(response, cut) == [response |-> response, missing |-> cut, trailing |-> ~cut]
decode_frame(op, frame) ==
    IF HEADER_BYTES + frame.response.bytes > COMPONENT_MESSAGE_BYTES \/ frame.missing \/ frame.trailing THEN Failure("protocol") ELSE decode_response(op, frame.response)

\* serve_ed25519_provider_once, or nothing if the request is refused.
dispatch_provider_request(request) ==
    IF ~decode_request(request) THEN {}
    ELSE {IF request.handle # Slot THEN ProviderResponse(request.op, 4, <<>>, 0)
          ELSE ProviderResponse(request.op, 0, IF request.op = "public_key" THEN <<device>> ELSE <<device, request.message>>,
                        Size(request.op))}

\* What another program in the provider's place may answer.
Answers ==
    {ProviderResponse("public_key", 0, <<k>>, n) : k \in Keys, n \in {PublicKeyBytes, SignatureBytes}} \union
    {ProviderResponse("sign", 0, <<k, m>>, SignatureBytes) : k \in Keys, m \in MessageSizes} \union
    {ProviderResponse(op, 1, <<>>, n) : op \in {"public_key", "sign"}, n \in {0, 1}}

-----------------------------------------------------------------------------
(* HardwareEd25519Key                                                       *)

SigningInit ==
    /\ executable = "real" /\ device \in Keys /\ key = Closed /\ invocation = Idle /\ outcome = Success(<<>>)
    /\ invocations = 0 /\ changes = 0

\* A file is absent or unfit, or its digest tells which program it is.
provider_digest == IF executable = "missing" THEN Failure("io") ELSE Success(executable)

Open(handle, expected) ==
    /\ key = Closed
    /\ IF ~ValidHandle(handle) THEN outcome' = Failure("configuration") /\ UNCHANGED key
       ELSE IF provider_digest.error # "none" THEN outcome' = provider_digest /\ UNCHANGED key
       ELSE /\ key' = [handle |-> handle, digest |-> provider_digest.value, expected |-> expected]
            /\ UNCHANGED outcome
    /\ UNCHANGED <<executable, device, invocation, invocations, changes>>

\* public_key, and sign up to its first exchange.
BeginCall(op, message) ==
    /\ key # Closed /\ invocation = Idle /\ invocations < MaxCalls
    /\ invocations' = invocations + 1
    /\ IF op = "sign" /\ message > MAX_KEYSTORE_MESSAGE_BYTES
       THEN outcome' = Failure("configuration") /\ UNCHANGED invocation
       ELSE invocation' = [op |-> op, message |-> message, asks |-> "public_key", public |-> <<>>, at |-> "measure"]
            /\ UNCHANGED outcome
    /\ UNCHANGED <<executable, device, key, changes>>

CallReturns(r) == invocation' = Idle /\ outcome' = r

ProviderRequest == encode_request(invocation.asks, key.handle, IF invocation.asks = "sign" THEN invocation.message ELSE 0)

\* invoke: the executable is measured and the request made; then it is launched.
Measure ==
    /\ invocation # Idle /\ invocation.at = "measure"
    /\ IF provider_digest.error # "none" THEN CallReturns(provider_digest)
       ELSE IF provider_digest.value # key.digest THEN CallReturns(Failure("changed"))
       ELSE IF ~decode_request(ProviderRequest) THEN CallReturns(Failure("configuration"))
       ELSE invocation' = [invocation EXCEPT !.at = "launch"] /\ UNCHANGED outcome
    /\ UNCHANGED <<executable, device, key, invocations, changes>>

\* A fault: a signature of the pinned provider is taken at its word.
ValidateKeyOnly(answer) ==
    IF answer.error # "none" THEN CallReturns(answer)
    ELSE IF invocation.asks = "public_key" /\ answer.value # <<key.expected>> THEN CallReturns(Failure("identity"))
    ELSE IF invocation.op = invocation.asks THEN CallReturns(answer)
    ELSE invocation' = [invocation EXCEPT !.asks = "sign", !.public = answer.value, !.at = "measure"] /\ UNCHANGED outcome

\* validate_public_key, validate_signature.
Validate(answer) ==
    IF answer.error # "none" THEN CallReturns(answer)
    ELSE IF invocation.asks = "public_key" /\ answer.value # <<key.expected>> THEN CallReturns(Failure("identity"))
    ELSE IF invocation.asks = "sign" /\ answer.value # <<invocation.public[1], invocation.message>> THEN CallReturns(Failure("signature"))
    ELSE IF invocation.op = invocation.asks THEN CallReturns(answer)
    ELSE invocation' = [invocation EXCEPT !.asks = "sign", !.public = answer.value, !.at = "measure"] /\ UNCHANGED outcome

\* What the program now in place writes; nothing if it cannot be launched.
Answered ==
    CASE executable = "real" -> dispatch_provider_request(ProviderRequest)
      [] executable = "other" -> Answers
      [] executable = "missing" -> {}

\* ComponentCommand::invoke.
InvokeComponent ==
    /\ invocation # Idle /\ invocation.at = "launch"
    /\ IF RequestBytes(ProviderRequest) > COMPONENT_MESSAGE_BYTES THEN CallReturns(Failure("too_large"))
       ELSE IF Answered = {} THEN CallReturns(Failure("component"))
       ELSE \E response \in Answered : Validate(decode_frame(invocation.asks, encode_frame(response)))
    /\ UNCHANGED <<executable, device, key, invocations, changes>>

\* The same with a process that fails, or an output that is cut at the capture
\* limit or followed by more.
Disturbed ==
    /\ invocation # Idle /\ invocation.at = "launch" /\ changes < MaxChanges
    /\ changes' = changes + 1
    /\ \/ CallReturns(Failure("component"))
       \/ \E response \in Answered, cut \in BOOLEAN :
            Validate(decode_frame(invocation.asks, damaged_frame(response, cut)))
    /\ UNCHANGED <<executable, device, key, invocations>>

Drop ==
    /\ key # Closed /\ invocation = Idle
    /\ key' = Closed
    /\ UNCHANGED <<executable, device, invocation, outcome, invocations, changes>>

ReplaceProgram(program) ==
    /\ changes < MaxChanges /\ program # executable
    /\ executable' = program /\ changes' = changes + 1
    /\ UNCHANGED <<device, key, invocation, outcome, invocations>>

Rotate(k) ==
    /\ changes < MaxChanges /\ k # device
    /\ device' = k /\ changes' = changes + 1
    /\ UNCHANGED <<executable, key, invocation, outcome, invocations>>

SigningNext ==
    \/ \E handle \in Handles, expected \in Keys : Open(handle, expected)
    \/ BeginCall("public_key", 0)
    \/ \E message \in MessageSizes : BeginCall("sign", message)
    \/ Measure \/ InvokeComponent \/ Disturbed \/ Drop
    \/ \E program \in {"real", "other", "missing"} : ReplaceProgram(program)
    \/ \E k \in Keys : Rotate(k)

SigningSpec == SigningInit /\ [][SigningNext]_signing_vars

-----------------------------------------------------------------------------
(* Properties                                                               *)

Errors == {"none", "configuration", "io", "changed", "too_large", "component", "protocol", "rejected", "identity", "signature"}

SigningTypeOK ==
    /\ executable \in {"real", "other", "missing"} /\ device \in Keys /\ outcome.error \in Errors
    /\ key # Closed => ValidHandle(key.handle) /\ key.expected \in Keys
    /\ invocation # Idle => invocation.op \in {"public_key", "sign"} /\ invocation.asks \in {"public_key", "sign"}
    /\ invocations \in 0 .. MaxCalls /\ changes \in 0 .. MaxChanges

CallEnds == invocation # Idle /\ invocation'.op = "none"

(* "verifies every returned signature before releasing it" (crypto_-        *)
(* keystore.rs:6): what a call returns is the pinned public key, or a       *)
(* signature of the caller's message by that key, also if the executable is *)
(* replaced after it was measured, the device changes keys between the two  *)
(* exchanges of sign, or an answer is cut or belongs to another operation.  *)
Released ==
    CallEnds /\ outcome'.error = "none" =>
      outcome'.value = IF invocation.op = "sign" THEN <<key.expected, invocation.message>> ELSE <<key.expected>>

(* Every handle and message that the key accepts fits one exchange: while   *)
(* nothing is disturbed, a call on the device's handle and key succeeds,    *)
(* and no other call fails for a reason that is not its own.                *)
Undisturbed ==
    CallEnds /\ changes' = 0 =>
      outcome'.error = IF key.handle # Slot THEN "rejected" ELSE IF key.expected # device THEN "identity" ELSE "none"

(* What a call returns is what the pinned key made, and a call that nothing *)
(* disturbs fails for no reason but its own.                                *)
SigningExact == [][Released /\ Undisturbed]_signing_vars
=============================================================================
