---------------------------- MODULE OwnedBuiltins ----------------------------
(***************************************************************************)
(* What the ownership checker (ownership.rs, check_call) does with the     *)
(* operands of every built-in operation: how it uses the receiver ("none"  *)
(* for a call without one, otherwise read, mutate or consume), which of    *)
(* the remaining arguments it consumes (by position; the others are only   *)
(* read and stay usable), and whether the type it gives the result is      *)
(* Copy.  ty_is_copy gives Option and Result the copyability of what they  *)
(* hold; every error type is owned, so no Result is Copy.                  *)
(***************************************************************************)
EXTENDS BuiltinTypes, Naturals

None == {}
Every == 1..8

Own(ops, receiver, consumes, copies) ==
    {[op |-> o, receiver |-> receiver, consumes |-> consumes, copies |-> copies] : o \in ops}

NamedOwned ==
    Own({"String", "Path", "Url", "Json", "SocketAddress"}, "none", None, FALSE)
    \cup Own({"print"}, "none", None, TRUE)

WrapOwned == Own({"Some", "Ok", "Err"}, "none", Every, FALSE)

AsyncOwned ==
    Own({"Async.yield", "Async.sleep", "Async.resolve", "Async.resolve_timeout"},
        "none", None, FALSE)
    \cup Own({"Async.spawn", "Async.connect", "Async.connect_timeout", "Async.read_text",
              "Async.read_bytes"}, "none", {1}, FALSE)
    \cup Own({"Async.write_text", "Async.write_bytes"}, "none", {1, 2}, FALSE)

NetworkOwned ==
    Own({"TcpListener.bind", "UdpSocket.bind"}, "none", {1}, FALSE)
    \cup Own({"IpAddress.parse", "Dns.resolve"}, "none", None, FALSE)
    \cup Own({"Tls.connect", "Tls.connect_timeout"}, "none", {1}, FALSE)
    \cup Own({"Http.get", "Http.get_timeout", "Http.post", "Http.post_timeout",
              "Http.post_json", "Http.post_json_timeout", "Http.put", "Http.put_timeout",
              "Http.patch", "Http.patch_timeout", "Http.delete", "Http.delete_timeout",
              "Http.request"}, "none", None, FALSE)

SystemOwned ==
    Own({"Path.new", "File.read_text", "File.read_bytes", "File.size",
         "File.modified_seconds", "Directory.read", "File.write_text", "File.write_bytes",
         "File.append_text", "File.append_bytes", "File.copy", "File.move", "File.remove",
         "Directory.create", "Directory.create_all", "Directory.remove",
         "Environment.arguments", "Environment.get", "Process.run", "Database.open",
         "Database.memory"}, "none", None, FALSE)
    \cup Own({"File.exists", "Directory.exists", "Time.now", "Time.unix_seconds",
              "Time.ticks", "Time.sleep", "Duration.from_nanos", "Duration.from_millis",
              "Duration.from_seconds"}, "none", None, TRUE)
    \cup Own({"Process.command"}, "none", Every, FALSE)

CryptoOwned ==
    Own({"Crypto.random_bytes", "Crypto.random_secret", "Crypto.sha256", "Crypto.hmac_sha256",
         "Crypto.hmac_sha256_verify", "Crypto.hkdf_sha256", "Crypto.aes256_gcm_siv_seal",
         "Crypto.aes256_gcm_siv_open", "Crypto.encode_aead_envelope",
         "Crypto.decode_aead_envelope", "Crypto.ed25519_generate",
         "Crypto.ed25519_public_key", "Crypto.ed25519_sign", "Crypto.ed25519_verify",
         "Crypto.ed25519_key_id", "Crypto.ed25519_verify_keyed",
         "Crypto.ed25519_verify_lifecycle", "Crypto.encode_ed25519_public_key",
         "Crypto.decode_ed25519_public_key", "Crypto.encode_ed25519_signature",
         "Crypto.decode_ed25519_signature", "Crypto.argon2id_hash_password",
         "Crypto.argon2id_verify_password"}, "none", None, FALSE)
    \cup Own({"Crypto.import_secret"}, "none", Every, FALSE)
    \cup Own({"Port.read_u8", "Port.write_u8", "Mmio.read_u8", "Mmio.read_u16",
              "Mmio.read_u32", "Mmio.write_u8", "Mmio.write_u16", "Mmio.write_u32"},
             "none", None, TRUE)

ConstructorsOwned ==
    Own({"Json.null", "Json.bool", "Json.int", "Json.uint", "Json.float", "Json.string",
         "Json.array", "Json.object", "Json.from", "Record.from_json", "String.new",
         "String.with_capacity", "CString.new"}, "none", None, FALSE)
    \cup Own({"CExport.callback"}, "none", None, TRUE)
    \cup Own({"CRegistration.adopt", "CRegistration.adopt_async"}, "none", None, FALSE)
    \cup Own({"CRegistration.register_async"}, "none", {1}, FALSE)
    \cup Own({"Memory.allocate"}, "none", None, FALSE)

CollectionsOwned ==
    Own({"List.new", "List.with_capacity", "Map.new", "Map.with_capacity", "Set.new",
         "Set.with_capacity", "AtomicInt.new", "Channel.bounded"}, "none", None, FALSE)
    \cup Own({"List.of", "Map.of", "Set.of"}, "none", Every, FALSE)
    \cup Own({"Mutex.new"}, "none", {1}, FALSE)
    \cup Own({"Array.iter", "Slice.iter"}, "read", None, TRUE)

PathOwned ==
    Own({"Path.join", "Path.as_string", "Path.name", "Path.extension", "Path.parent"},
        "read", None, FALSE)
    \cup Own({"Path.len", "Path.is_empty", "Path.is_absolute"}, "read", None, TRUE)
    \cup Own({"ProcessOutput.status", "ProcessOutput.success"}, "read", None, TRUE)
    \cup Own({"ProcessOutput.stdout", "ProcessOutput.stderr", "ProcessOutput.stdout_text",
              "ProcessOutput.stderr_text"}, "read", None, FALSE)

ProcessOwned ==
    Own({"ProcessCommand.run", "ProcessCommand.start", "ProcessCommand.arg",
         "ProcessCommand.arguments", "ProcessCommand.directory",
         "ProcessCommand.environment", "ProcessCommand.clear_environment",
         "ProcessCommand.input", "ProcessCommand.input_text", "ProcessCommand.timeout"},
        "consume", Every, FALSE)
    \cup Own({"ChildProcess.wait"}, "consume", None, FALSE)
    \cup Own({"ChildProcess.write", "ChildProcess.write_text", "ChildProcess.close_input",
              "ChildProcess.kill", "ChildProcess.read_stdout", "ChildProcess.read_stderr",
              "ChildProcess.try_wait"}, "mutate", None, FALSE)

DatabaseOwned ==
    Own({"Database.close"}, "consume", None, FALSE)
    \cup Own({"Database.execute", "Database.query", "Database.begin", "Database.commit",
              "Database.rollback"}, "mutate", None, FALSE)
    \cup Own({"Database.changes", "Database.last_insert_id"}, "read", None, TRUE)

UrlAndJsonOwned ==
    Own({"Url.as_string", "Url.scheme", "Url.path", "Url.host", "Url.query", "Url.join_path",
         "Url.query_param"}, "read", None, FALSE)
    \cup Own({"Url.port", "Url.is_secure"}, "read", None, TRUE)
    \cup Own({"Json.as_string", "Json.kind", "Json.get", "Json.at", "Json.as_text",
              "Json.as_bool", "Json.as_int", "Json.as_uint", "Json.as_f64"},
             "read", None, FALSE)
    \cup Own({"Json.len", "Json.is_null", "Json.is_bool", "Json.is_number", "Json.is_string",
              "Json.is_array", "Json.is_object"}, "read", None, TRUE)

StreamsOwned ==
    Own({"TcpStream.read", "TcpStream.read_async", "TcpStream.read_async_timeout",
         "TcpStream.write", "TcpStream.write_async", "TcpStream.write_async_timeout",
         "TcpStream.shutdown_read", "TcpStream.shutdown_write", "TlsStream.read",
         "TlsStream.read_async", "TlsStream.read_async_timeout", "TlsStream.write",
         "TlsStream.write_async", "TlsStream.write_async_timeout"}, "mutate", None, FALSE)
    \cup Own({"TcpStream.close", "TlsStream.close"}, "mutate", None, TRUE)

HttpOwned ==
    Own({"HttpResponse.body", "HttpResponse.text", "HttpResponse.json", "HttpResponse.url",
         "HttpResponse.header"}, "read", None, FALSE)
    \cup Own({"HttpResponse.status", "HttpResponse.len", "HttpResponse.is_success",
              "HttpResponse.is_empty"}, "read", None, TRUE)
    \cup Own({"HttpRequest.header", "HttpRequest.text", "HttpRequest.bytes",
              "HttpRequest.json", "HttpRequest.send", "HttpRequest.send_timeout"},
             "consume", None, FALSE)

SocketsOwned ==
    Own({"TcpListener.close"}, "mutate", None, TRUE)
    \cup Own({"TcpListener.accept", "TcpListener.accept_timeout", "TcpListener.local_port"},
             "read", None, FALSE)
    \cup Own({"UdpSocket.receive_from", "UdpSocket.receive_from_async",
              "UdpSocket.receive_from_async_timeout", "UdpSocket.send_to",
              "UdpSocket.local_port", "UdpSocket.send_to_async",
              "UdpSocket.send_to_async_timeout"}, "mutate", None, FALSE)
    \cup Own({"UdpSocket.close"}, "mutate", None, TRUE)

AddressesOwned ==
    Own({"UdpDatagram.bytes", "UdpDatagram.source", "IpAddress.as_string"},
        "read", None, FALSE)
    \cup Own({"UdpDatagram.len", "UdpDatagram.is_empty", "IpAddress.is_ipv4",
              "IpAddress.is_ipv6", "IpAddress.is_loopback", "IpAddress.is_unspecified",
              "Instant.elapsed", "Duration.nanos", "Duration.millis", "Duration.seconds"},
             "read", None, TRUE)

ConcurrencyOwned ==
    Own({"Thread.join"}, "consume", None, FALSE)
    \cup Own({"Task.cancel"}, "consume", None, TRUE)
    \cup Own({"Task.is_finished"}, "read", None, TRUE)
    \cup Own({"Mutex.share", "Mutex.lock"}, "read", None, FALSE)
    \cup Own({"Channel.send"}, "read", Every, TRUE)
    \cup Own({"Channel.share", "Channel.receive"}, "read", None, FALSE)
    \cup Own({"Channel.close", "Channel.len", "Channel.capacity", "Channel.is_closed"},
             "read", None, TRUE)
    \cup Own({"AtomicInt.share"}, "read", None, FALSE)
    \cup Own({"AtomicInt.store", "AtomicInt.store_relaxed", "AtomicInt.store_release",
              "AtomicInt.store_seq_cst", "AtomicInt.load", "AtomicInt.load_relaxed",
              "AtomicInt.load_acquire", "AtomicInt.load_seq_cst", "AtomicInt.add",
              "AtomicInt.add_relaxed", "AtomicInt.add_acquire", "AtomicInt.add_release",
              "AtomicInt.add_acq_rel", "AtomicInt.add_seq_cst", "AtomicInt.fetch_add",
              "AtomicInt.fetch_add_relaxed", "AtomicInt.fetch_add_acquire",
              "AtomicInt.fetch_add_release", "AtomicInt.fetch_add_acq_rel",
              "AtomicInt.fetch_add_seq_cst"}, "read", None, TRUE)

ForeignOwned ==
    Own({"CString.as_c_str", "CString.len", "CString.is_empty"}, "read", None, TRUE)
    \cup Own({"CString.to_string"}, "read", None, FALSE)
    \cup Own({"CRegistration.close"}, "consume", None, TRUE)
    \cup Own({"CRegistration.is_active"}, "read", None, TRUE)
    \cup Own({"SecretBytes.len", "SecretBytes.is_empty",
              "SecretBytes.constant_time_equals"}, "read", None, TRUE)

MemoryOwned ==
    Own({"Memory.write", "Memory.fill", "Memory.copy_from", "Memory.as_mut_ptr"},
        "mutate", None, TRUE)
    \cup Own({"Memory.len", "Memory.alignment", "Memory.is_empty", "Memory.read",
              "Memory.as_ptr", "MemoryPointer.offset", "MutMemoryPointer.offset", "MemoryPointer.read",
              "MemoryPointer.write"}, "read", None, TRUE)

\* set consumes only the value: the key is read, like every other argument.
MapOwned ==
    Own({"Map.len", "Map.count", "Map.capacity", "Map.is_empty", "Map.empty", "Map.has",
         "Map.contains_key", "Map.get", "Map.keys", "Map.values"}, "read", None, TRUE)
    \cup Own({"Map.set", "Map.insert"}, "mutate", {2}, FALSE)
    \cup Own({"Map.get_mut", "Map.remove"}, "mutate", None, FALSE)
    \cup Own({"Map.clear"}, "mutate", None, TRUE)

SetOwned ==
    Own({"Set.len", "Set.count", "Set.capacity", "Set.is_empty", "Set.empty", "Set.has",
         "Set.contains", "Set.iter"}, "read", None, TRUE)
    \cup Own({"Set.add", "Set.insert"}, "mutate", Every, TRUE)
    \cup Own({"Set.remove", "Set.clear"}, "mutate", None, TRUE)

ListOwned ==
    Own({"List.len", "List.count", "List.capacity", "List.is_empty", "List.empty",
         "List.iter", "List.get"}, "read", None, TRUE)
    \cup Own({"List.push", "List.add"}, "mutate", Every, TRUE)
    \cup Own({"List.insert"}, "mutate", {2}, TRUE)
    \cup Own({"List.pop", "List.get_mut", "List.remove"}, "mutate", None, FALSE)
    \cup Own({"List.clear"}, "mutate", None, TRUE)

TextOwned ==
    Own({"String.len", "String.capacity", "String.is_empty", "String.contains",
         "String.starts_with", "String.ends_with"}, "read", None, TRUE)
    \cup Own({"String.push", "String.push_str", "String.append", "String.add",
              "String.clear"}, "mutate", None, TRUE)

NumericOwned == Own({"u8.try_from"}, "none", Every, FALSE)

\* No arm names these: the receiver is read, the arguments are consumed and the
\* result is an opaque owned type.
OtherOwned ==
    Own({"Array.len", "Array.count", "Array.is_empty", "Array.empty", "Slice.len",
         "Slice.count", "Slice.is_empty", "Slice.empty", "u8.wrapping_add",
         "u8.wrapping_sub", "u8.wrapping_mul", "u8.saturating_add", "u8.saturating_sub",
         "u8.saturating_mul"}, "read", Every, FALSE)
    \cup Own({"u8"}, "none", Every, FALSE)

Owned ==
    NamedOwned \cup WrapOwned \cup AsyncOwned \cup NetworkOwned \cup SystemOwned
    \cup CryptoOwned \cup ConstructorsOwned \cup CollectionsOwned \cup PathOwned
    \cup ProcessOwned \cup DatabaseOwned \cup UrlAndJsonOwned \cup StreamsOwned
    \cup HttpOwned \cup SocketsOwned \cup AddressesOwned \cup ConcurrencyOwned
    \cup ForeignOwned \cup MemoryOwned \cup MapOwned \cup SetOwned \cup ListOwned
    \cup TextOwned \cup NumericOwned \cup OtherOwned

\* ty_is_copy: unlike in the other passes a mutable reference and a C
\* function are not Copy.
RECURSIVE OwnershipCopies(_)
OwnershipCopies(t) ==
    \/ Head(t) \in {"Unit", "Bool", "Char", "Int", "UInt", "u8", "u16", "u32", "Float",
                   "Instant", "Duration", "IpAddress", "Reference", "RawPointer",
                   "MemoryPointer", "MutMemoryPointer", "Slice", "Str", "CStr"}
    \/ Head(t) = "Option" /\ OwnershipCopies(t[2])
    \/ Head(t) = "Result" /\ OwnershipCopies(t[2]) /\ OwnershipCopies(t[3])
    \/ Head(t) = "Array" /\ OwnershipCopies(t[2])
=============================================================================
