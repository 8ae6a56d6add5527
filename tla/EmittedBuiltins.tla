--------------------------- MODULE EmittedBuiltins ---------------------------
(***************************************************************************)
(* What the native backend (typed_codegen.rs, the Call terminator) emits   *)
(* for every intrinsic: the form in which each operand is used, and the    *)
(* operands the emitted code or the runtime routine it calls takes over    *)
(* (stores in an owner or releases).  The forms: "pointer" dereferences    *)
(* the operand, so MIR must pass a reference; "value" uses it by value;    *)
(* "either" is system_argument, which takes the address of a value and     *)
(* leaves a reference alone.                                               *)
(***************************************************************************)
EXTENDS Sequences, Naturals, FiniteSets

Em(targets, forms, takes) ==
    {[target |-> t, forms |-> forms, takes |-> takes] : t \in targets}

AsyncEmitted ==
    Em({"Async.yield"}, <<>>, {})
    \cup Em({"Async.spawn"}, <<"value">>, {1})
    \cup Em({"Async.sleep"}, <<"value">>, {})

PointersEmitted ==
    Em({"MemoryPointer.offset", "MemoryPointer.write"}, <<"value", "value">>, {})
    \cup Em({"MemoryPointer.read"}, <<"value">>, {})

ConnectEmitted ==
    Em({"Async.connect"}, <<"value">>, {1})
    \cup Em({"Async.connect_timeout"}, <<"value", "value">>, {1})
    \cup Em({"Async.resolve"}, <<"either">>, {})
    \cup Em({"Async.resolve_timeout"}, <<"either", "value">>, {})
    \cup Em({"Tls.connect"}, <<"value", "either">>, {1})
    \cup Em({"Tls.connect_timeout"}, <<"value", "either", "value">>, {1})

HttpEmitted ==
    Em({"Http.request"}, <<"either", "either">>, {})
    \cup Em({"Http.get", "Http.delete"}, <<"either">>, {})
    \cup Em({"Http.get_timeout", "Http.delete_timeout"}, <<"either", "value">>, {})
    \cup Em({"Http.post", "Http.put", "Http.patch", "Http.post_json"},
            <<"either", "either">>, {})
    \cup Em({"Http.post_timeout", "Http.put_timeout", "Http.patch_timeout",
             "Http.post_json_timeout"}, <<"either", "either", "value">>, {})

AsyncFilesEmitted ==
    Em({"Async.read_text", "Async.read_bytes"}, <<"value">>, {1})
    \cup Em({"Async.write_text", "Async.write_bytes"}, <<"value", "value">>, {1, 2})

\* print boxes its operand: a reference is boxed as one and dv_drop leaves it.
PrintAndArraysEmitted ==
    Em({"print"}, <<"either">>, {})
    \cup Em({"array_len", "slice_is_empty"}, <<"value">>, {})

ThreadsEmitted ==
    Em({"Thread.join", "Task.cancel"}, <<"value">>, {1})
    \cup Em({"Task.is_finished"}, <<"pointer">>, {})
    \cup Em({"Mutex.new"}, <<"value">>, {1})
    \cup Em({"Mutex.share", "Mutex.lock"}, <<"pointer">>, {})

\* A message the channel does not accept is dropped by the emitted code.
ChannelsEmitted ==
    Em({"Channel.bounded"}, <<"value">>, {})
    \cup Em({"Channel.share", "Channel.receive", "Channel.close", "Channel.len",
             "Channel.capacity", "Channel.is_closed"}, <<"pointer">>, {})
    \cup Em({"Channel.send"}, <<"pointer", "value">>, {2})

AtomicsEmitted ==
    Em({"AtomicInt.new"}, <<"value">>, {})
    \cup Em({"AtomicInt.share", "AtomicInt.load", "AtomicInt.load_relaxed",
             "AtomicInt.load_acquire", "AtomicInt.load_seq_cst"}, <<"pointer">>, {})
    \cup Em({"AtomicInt.store", "AtomicInt.store_relaxed", "AtomicInt.store_release",
             "AtomicInt.store_seq_cst", "AtomicInt.add", "AtomicInt.add_relaxed",
             "AtomicInt.add_acquire", "AtomicInt.add_release", "AtomicInt.add_acq_rel",
             "AtomicInt.add_seq_cst", "AtomicInt.fetch_add", "AtomicInt.fetch_add_relaxed",
             "AtomicInt.fetch_add_acquire", "AtomicInt.fetch_add_release",
             "AtomicInt.fetch_add_acq_rel", "AtomicInt.fetch_add_seq_cst"},
            <<"pointer", "value">>, {})

ForeignEmitted ==
    Em({"String.new"}, <<>>, {})
    \cup Em({"String.with_capacity"}, <<"value">>, {})
    \cup Em({"CString.new"}, <<"pointer">>, {})
    \cup Em({"CExport.callback"}, <<>>, {})
    \cup Em({"CRegistration.adopt"}, <<"value", "value">>, {})
    \cup Em({"CRegistration.adopt_async"}, <<"value", "value", "value">>, {})

RegistrationsEmitted ==
    Em({"CRegistration.register_async"}, <<"value", "value", "value", "value">>, {1})
    \cup Em({"CRegistration.close"}, <<"value">>, {1})
    \cup Em({"CRegistration.is_active"}, <<"pointer">>, {})
    \cup Em({"Memory.allocate"}, <<"value", "value">>, {})

NamedEmitted ==
    Em({"Path.new", "Url.parse", "Json.parse", "Json.from", "Json.decode"}, <<"either">>, {})

\* array and object read the collection they are given by value.
JsonConstructorsEmitted ==
    Em({"Json.null"}, <<>>, {})
    \cup Em({"Json.bool", "Json.int", "Json.uint", "Json.float", "Json.array", "Json.object"},
            <<"value">>, {})
    \cup Em({"Json.string"}, <<"either">>, {})

SocketConstructorsEmitted ==
    Em({"SocketAddress.new"}, <<"either", "value">>, {})
    \cup Em({"IpAddress.parse", "Dns.resolve"}, <<"either">>, {})
    \cup Em({"TcpListener.bind", "UdpSocket.bind"}, <<"value">>, {1})

\* Bytes to be written are passed by value and only read (or copied).
TcpStreamEmitted ==
    Em({"TcpStream.close", "TcpStream.shutdown_read", "TcpStream.shutdown_write"},
       <<"either">>, {})
    \cup Em({"TcpStream.read", "TcpStream.read_async", "TcpStream.write",
             "TcpStream.write_async"}, <<"either", "value">>, {})
    \cup Em({"TcpStream.read_async_timeout", "TcpStream.write_async_timeout"},
            <<"either", "value", "value">>, {})

TlsStreamEmitted ==
    Em({"TlsStream.close"}, <<"either">>, {})
    \cup Em({"TlsStream.read", "TlsStream.read_async", "TlsStream.write",
             "TlsStream.write_async"}, <<"either", "value">>, {})
    \cup Em({"TlsStream.read_async_timeout", "TlsStream.write_async_timeout"},
            <<"either", "value", "value">>, {})

ListenerEmitted ==
    Em({"TcpListener.accept", "TcpListener.local_port", "TcpListener.close"}, <<"either">>, {})
    \cup Em({"TcpListener.accept_timeout"}, <<"either", "value">>, {})

UdpEmitted ==
    Em({"UdpSocket.receive_from", "UdpSocket.receive_from_async"}, <<"either", "value">>, {})
    \cup Em({"UdpSocket.receive_from_async_timeout"}, <<"either", "value", "value">>, {})
    \cup Em({"UdpSocket.send_to", "UdpSocket.send_to_async"},
            <<"either", "value", "either">>, {})
    \cup Em({"UdpSocket.send_to_async_timeout"}, <<"either", "value", "either", "value">>, {})
    \cup Em({"UdpSocket.local_port", "UdpSocket.close"}, <<"either">>, {})

ResponsesEmitted ==
    Em({"UdpDatagram.bytes", "UdpDatagram.source", "UdpDatagram.len", "UdpDatagram.is_empty",
        "HttpResponse.status", "HttpResponse.is_success", "HttpResponse.body",
        "HttpResponse.text", "HttpResponse.json", "HttpResponse.url", "HttpResponse.len",
        "HttpResponse.is_empty"}, <<"either">>, {})
    \cup Em({"HttpResponse.header"}, <<"either", "either">>, {})

\* The builder is emptied into the request that replaces it.
HttpRequestEmitted ==
    Em({"HttpRequest.header"}, <<"either", "either", "either">>, {1})
    \cup Em({"HttpRequest.text", "HttpRequest.bytes", "HttpRequest.json"},
            <<"either", "either">>, {1})
    \cup Em({"HttpRequest.send"}, <<"either">>, {1})
    \cup Em({"HttpRequest.send_timeout"}, <<"either", "value">>, {1})

AddressesAndPathsEmitted ==
    Em({"IpAddress.as_string", "IpAddress.is_ipv4", "IpAddress.is_ipv6",
        "IpAddress.is_loopback", "IpAddress.is_unspecified", "Path.len", "Path.is_empty",
        "Path.is_absolute", "Path.as_string", "Path.name", "Path.extension", "Path.parent"},
       <<"either">>, {})
    \cup Em({"Path.join"}, <<"either", "either">>, {})

UrlAndJsonEmitted ==
    Em({"Url.as_string", "Url.scheme", "Url.host", "Url.query", "Url.port", "Url.path",
        "Url.is_secure", "Json.as_string", "Json.kind", "Json.len", "Json.is_null",
        "Json.is_bool", "Json.is_number", "Json.is_string", "Json.is_array",
        "Json.is_object", "Json.as_bool", "Json.as_int", "Json.as_uint", "Json.as_f64",
        "Json.as_text"}, <<"either">>, {})
    \cup Em({"Url.join_path", "Json.get"}, <<"either", "either">>, {})
    \cup Em({"Url.query_param"}, <<"either", "either", "either">>, {})
    \cup Em({"Json.at"}, <<"either", "value">>, {})

FilesEmitted ==
    Em({"File.exists", "File.read_text", "File.read_bytes", "File.size",
        "File.modified_seconds", "File.remove"}, <<"either">>, {})
    \cup Em({"File.write_text", "File.append_text", "File.write_bytes", "File.append_bytes",
             "File.copy", "File.move"}, <<"either", "either">>, {})
    \cup Em({"Environment.arguments"}, <<>>, {})
    \cup Em({"Environment.get"}, <<"either">>, {})

SecretsEmitted ==
    Em({"Crypto.random_bytes", "Crypto.random_secret"}, <<"value">>, {})
    \cup Em({"Crypto.import_secret"}, <<"value">>, {1})
    \cup Em({"Crypto.sha256"}, <<"either">>, {})
    \cup Em({"Crypto.hmac_sha256"}, <<"either", "either">>, {})
    \cup Em({"Crypto.hmac_sha256_verify"}, <<"either", "either", "either">>, {})
    \cup Em({"Crypto.hkdf_sha256"}, <<"either", "either", "either", "value">>, {})

SealsEmitted ==
    Em({"Crypto.aes256_gcm_siv_seal", "Crypto.aes256_gcm_siv_open"},
       <<"either", "either", "either">>, {})
    \cup Em({"Crypto.encode_aead_envelope", "Crypto.decode_aead_envelope"}, <<"either">>, {})
    \cup Em({"Crypto.ed25519_generate"}, <<>>, {})
    \cup Em({"Crypto.ed25519_public_key", "Crypto.ed25519_key_id"}, <<"either">>, {})
    \cup Em({"Crypto.ed25519_sign"}, <<"either", "either">>, {})
    \cup Em({"Crypto.ed25519_verify"}, <<"either", "either", "either">>, {})

KeyedEmitted ==
    Em({"Crypto.ed25519_verify_keyed"}, <<"either", "either", "either", "either">>, {})
    \cup Em({"Crypto.ed25519_verify_lifecycle"},
            <<"either", "either", "either", "either", "value", "value", "value", "value">>, {})
    \cup Em({"Crypto.encode_ed25519_public_key", "Crypto.decode_ed25519_public_key",
             "Crypto.encode_ed25519_signature", "Crypto.decode_ed25519_signature"},
            <<"either">>, {})
    \cup Em({"Crypto.argon2id_hash_password"}, <<"either">>, {})
    \cup Em({"Crypto.argon2id_verify_password"}, <<"either", "either">>, {})
    \cup Em({"SecretBytes.len", "SecretBytes.is_empty"}, <<"pointer">>, {})
    \cup Em({"SecretBytes.constant_time_equals"}, <<"pointer", "either">>, {})

DatabasesEmitted ==
    Em({"Database.memory"}, <<>>, {})
    \cup Em({"Database.open", "Database.begin", "Database.commit", "Database.rollback",
             "Database.changes", "Database.last_insert_id"}, <<"either">>, {})
    \cup Em({"Database.close"}, <<"either">>, {1})
    \cup Em({"Database.execute", "Database.query"}, <<"either", "either", "either">>, {})
    \cup Em({"Process.command"}, <<"value">>, {1})
    \cup Em({"Process.run"}, <<"either", "either">>, {})

\* A str argument of a command is copied, an owned one moved into the command.
CommandsEmitted ==
    Em({"ProcessCommand.run", "ProcessCommand.start", "ProcessCommand.clear_environment"},
       <<"value">>, {1})
    \cup Em({"ProcessCommand.arg", "ProcessCommand.arguments", "ProcessCommand.directory",
             "ProcessCommand.input", "ProcessCommand.input_text", "ProcessCommand.timeout"},
            <<"value", "value">>, {1, 2})
    \cup Em({"ProcessCommand.environment"}, <<"value", "value", "value">>, {1, 2, 3})

ChildrenEmitted ==
    Em({"ChildProcess.write", "ChildProcess.read_stdout", "ChildProcess.read_stderr"},
       <<"either", "value">>, {})
    \cup Em({"ChildProcess.write_text"}, <<"either", "either">>, {})
    \cup Em({"ChildProcess.close_input", "ChildProcess.try_wait", "ChildProcess.kill"},
            <<"either">>, {})
    \cup Em({"ChildProcess.wait"}, <<"value">>, {1})
    \cup Em({"ProcessOutput.status", "ProcessOutput.success", "ProcessOutput.stdout",
             "ProcessOutput.stderr", "ProcessOutput.stdout_text",
             "ProcessOutput.stderr_text"}, <<"either">>, {})

ClocksEmitted ==
    Em({"Directory.exists", "Directory.read", "Directory.create", "Directory.create_all",
        "Directory.remove"}, <<"either">>, {})
    \cup Em({"Time.now", "Time.unix_seconds", "Time.ticks"}, <<>>, {})
    \cup Em({"Time.sleep", "Duration.from_nanos", "Duration.from_millis",
             "Duration.from_seconds", "Instant.elapsed", "Duration.nanos",
             "Duration.millis", "Duration.seconds"}, <<"value">>, {})

ListsEmitted ==
    Em({"List.new"}, <<>>, {})
    \cup Em({"List.of"}, <<"value", "value">>, {1, 2})
    \cup Em({"List.with_capacity"}, <<"value">>, {})
    \cup Em({"List.len", "List.capacity", "List.is_empty"}, <<"pointer">>, {})

ListMethodsEmitted ==
    Em({"List.iter", "List.pop", "List.clear"}, <<"pointer">>, {})
    \cup Em({"List.push"}, <<"pointer", "value">>, {2})
    \cup Em({"List.get", "List.get_mut", "List.remove"}, <<"pointer", "value">>, {})
    \cup Em({"List.insert"}, <<"pointer", "value", "value">>, {3})

CollectionConstructorsEmitted ==
    Em({"Map.new", "Set.new"}, <<>>, {})
    \cup Em({"Map.with_capacity", "Set.with_capacity"}, <<"value">>, {})
    \cup Em({"Map.of", "Set.of"}, <<"value", "value">>, {1, 2})

\* A key or element the collection already holds is dropped, another is stored.
CollectionMethodsEmitted ==
    Em({"Map.len", "Map.capacity", "Map.is_empty", "Map.clear", "Map.keys", "Map.values",
        "Set.len", "Set.capacity", "Set.is_empty", "Set.clear", "Set.iter",
        "collection.iter"}, <<"pointer">>, {})
    \cup Em({"Map.has", "Map.get", "Map.get_mut", "Map.remove", "Set.has", "Set.remove"},
            <<"pointer", "either">>, {})
    \cup Em({"Map.set"}, <<"pointer", "either", "value">>, {2, 3})
    \cup Em({"Set.add"}, <<"pointer", "either">>, {2})

MemoryEmitted ==
    Em({"Memory.len", "Memory.alignment", "Memory.is_empty", "Memory.as_ptr",
        "Memory.as_mut_ptr"}, <<"pointer">>, {})
    \cup Em({"Memory.read", "Memory.fill"}, <<"pointer", "value">>, {})
    \cup Em({"Memory.write"}, <<"pointer", "value", "value">>, {})
    \cup Em({"Memory.copy_from"}, <<"pointer", "value", "pointer", "value", "value">>, {})

TextEmitted ==
    Em({"CString.len", "CString.is_empty", "CString.to_string", "CString.as_c_str",
        "String.len", "String.capacity", "String.is_empty", "String.clear"}, <<"pointer">>, {})
    \cup Em({"String.push"}, <<"pointer", "value">>, {})
    \cup Em({"String.push_str", "String.contains", "String.starts_with", "String.ends_with"},
            <<"pointer", "pointer">>, {})

\* Every other intrinsic is a call of dv_intrinsic, which computes these and
\* panics on a name it does not know (with one operand it returns it).
RuntimeIntrinsics ==
    Em({"wrapping_add", "wrapping_sub", "wrapping_mul", "saturating_add", "saturating_sub",
        "saturating_mul"}, <<"value", "value">>, {})
    \cup Em({"u8", "u8.try_from"}, <<"value">>, {})

\* Mutant: the payload is copied out of a local that stays the caller's.
ConstructCopies == Em({"construct"}, <<"value">>, {})

\* Some, Ok and Err are aggregates: the operand becomes the payload.
ConstructEmitted == Em({"construct"}, <<"value">>, {1})

Emitted ==
    AsyncEmitted \cup PointersEmitted \cup ConnectEmitted \cup HttpEmitted
    \cup AsyncFilesEmitted \cup PrintAndArraysEmitted \cup ThreadsEmitted
    \cup ChannelsEmitted \cup AtomicsEmitted \cup ForeignEmitted \cup RegistrationsEmitted
    \cup NamedEmitted \cup JsonConstructorsEmitted \cup SocketConstructorsEmitted
    \cup TcpStreamEmitted \cup TlsStreamEmitted \cup ListenerEmitted \cup UdpEmitted
    \cup ResponsesEmitted \cup HttpRequestEmitted \cup AddressesAndPathsEmitted
    \cup UrlAndJsonEmitted \cup FilesEmitted \cup SecretsEmitted \cup SealsEmitted
    \cup KeyedEmitted \cup DatabasesEmitted \cup CommandsEmitted \cup ChildrenEmitted
    \cup ClocksEmitted \cup ListsEmitted \cup ListMethodsEmitted
    \cup CollectionConstructorsEmitted \cup CollectionMethodsEmitted \cup MemoryEmitted
    \cup TextEmitted \cup RuntimeIntrinsics \cup ConstructEmitted
=============================================================================
