--------------------------- MODULE LoweredBuiltins ---------------------------
(***************************************************************************)
(* What HIR lowering (hir.rs, lower_call) makes of every built-in          *)
(* operation: the intrinsic it names, how the receiver is passed ("none"   *)
(* when the call has no receiver, so that the first argument is treated    *)
(* like the others) and the type it gives the result.  Type::Unknown is    *)
(* written Infer, as the checker's not-yet-known type is.                  *)
(***************************************************************************)
EXTENDS BuiltinTypes, Naturals

As(op, target, receiver, result) ==
    {[op |-> op, target |-> target, receiver |-> receiver, result |-> result]}

Low(ops, receiver, result) == UNION {As(o, o, receiver, result) : o \in ops}

AsyncLowered ==
    Low({"Async.spawn"}, "none", <<"Task", Unit>>)
    \cup Low({"Async.read_text"}, "none", Future(IoErr(Text)))
    \cup Low({"Async.read_bytes"}, "none", Future(IoErr(Bytes)))
    \cup Low({"Async.write_text", "Async.write_bytes"}, "none", Future(IoErr(Unit)))
    \cup Low({"Async.connect", "Async.connect_timeout"}, "none",
             Future(NetErr(T("TcpStream"))))
    \cup Low({"Async.resolve", "Async.resolve_timeout"}, "none",
             Future(NetErr(List(T("IpAddress")))))
    \cup Low({"Async.yield", "Async.sleep"}, "none", Future(Unit))

SocketConstructorsLowered ==
    Low({"TcpListener.bind"}, "none", NetErr(T("TcpListener")))
    \cup Low({"UdpSocket.bind"}, "none", NetErr(T("UdpSocket")))
    \cup Low({"IpAddress.parse"}, "none", NetErr(T("IpAddress")))
    \cup Low({"Dns.resolve"}, "none", NetErr(List(T("IpAddress"))))
    \cup Low({"Tls.connect", "Tls.connect_timeout"}, "none", Future(NetErr(T("TlsStream"))))

HttpLowered ==
    Low({"Http.request"}, "none", HttpErr(T("HttpRequest")))
    \cup Low({"Http.get", "Http.get_timeout", "Http.post", "Http.post_timeout",
              "Http.post_json", "Http.post_json_timeout", "Http.put", "Http.put_timeout",
              "Http.patch", "Http.patch_timeout", "Http.delete", "Http.delete_timeout"},
             "none", Future(HttpErr(T("HttpResponse"))))

JsonConstructorsLowered ==
    Low({"Json.null", "Json.bool", "Json.int", "Json.uint"}, "none", JsonT)
    \cup Low({"Json.float", "Json.string", "Json.array", "Json.object"}, "none", ConvErr(JsonT))
    \cup Low({"Json.from"}, "shared", ConvErr(JsonT))
    \cup As("Record.from_json", "Json.decode", "shared", ConvErr(T("Record")))

MemoryConstructorsLowered ==
    Low({"String.new", "String.with_capacity"}, "none", Text)
    \cup Low({"CString.new"}, "none", TextErr(T("CString")))
    \cup Low({"Memory.allocate"}, "none", TextErr(T("Memory")))

CollectionConstructorsLowered ==
    Low({"List.of"}, "none", List(Elem))
    \cup Low({"List.new", "List.with_capacity"}, "none", List(Infer))
    \cup Low({"Mutex.new"}, "none", <<"Mutex", Elem>>)
    \cup Low({"Channel.bounded"}, "none", TextErr(<<"Channel", Infer>>))
    \cup Low({"AtomicInt.new"}, "none", T("AtomicInt"))
    \cup Low({"Map.of"}, "none", MapT)
    \cup Low({"Map.new", "Map.with_capacity"}, "none", <<"Map", Infer, Infer>>)
    \cup Low({"Set.of"}, "none", SetT)
    \cup Low({"Set.new", "Set.with_capacity"}, "none", <<"Set", Infer>>)

ExportLowered == Low({"CExport.callback"}, "none", T("CFunction"))

SystemLowered ==
    Low({"Path.new"}, "none", PathT)
    \cup Low({"File.read_text"}, "none", IoErr(Text))
    \cup Low({"File.read_bytes"}, "none", IoErr(Bytes))
    \cup Low({"File.size", "File.modified_seconds"}, "none", IoErr(UInt))
    \cup Low({"File.exists", "Directory.exists"}, "none", Bool)
    \cup Low({"Directory.read"}, "none", IoErr(List(PathT)))
    \cup Low({"File.write_text", "File.write_bytes", "File.append_text", "File.append_bytes",
              "File.copy", "File.move", "File.remove", "Directory.create",
              "Directory.create_all", "Directory.remove"}, "none", IoErr(Unit))
    \cup Low({"Time.now"}, "none", T("Instant"))
    \cup Low({"Time.unix_seconds"}, "none", UInt)
    \cup Low({"Time.ticks"}, "none", T("u32"))
    \cup Low({"Time.sleep"}, "none", Unit)
    \cup Low({"Duration.from_nanos", "Duration.from_millis", "Duration.from_seconds"},
             "none", Dur)
    \cup Low({"Environment.arguments"}, "none", List(Text))
    \cup Low({"Environment.get"}, "none", Option(Text))
    \cup Low({"Process.command"}, "none", T("ProcessCommand"))
    \cup Low({"Process.run"}, "none", IoErr(T("ProcessOutput")))
    \cup Low({"Database.open", "Database.memory"}, "none", DataErr(T("Database")))

CryptoLowered ==
    Low({"Crypto.random_bytes", "Crypto.sha256", "Crypto.hmac_sha256",
         "Crypto.encode_aead_envelope", "Crypto.ed25519_public_key", "Crypto.ed25519_sign",
         "Crypto.ed25519_key_id", "Crypto.encode_ed25519_public_key",
         "Crypto.decode_ed25519_public_key", "Crypto.encode_ed25519_signature",
         "Crypto.decode_ed25519_signature"}, "none", CryptoErr(Bytes))
    \cup Low({"Crypto.random_secret", "Crypto.import_secret", "Crypto.hkdf_sha256",
              "Crypto.aes256_gcm_siv_open"}, "none", CryptoErr(Secret))
    \cup Low({"Crypto.aes256_gcm_siv_seal", "Crypto.decode_aead_envelope"}, "none",
             CryptoErr(T("AeadEnvelope")))
    \cup Low({"Crypto.hmac_sha256_verify", "Crypto.ed25519_verify",
              "Crypto.ed25519_verify_keyed", "Crypto.ed25519_verify_lifecycle",
              "Crypto.argon2id_verify_password"}, "none", CryptoErr(Bool))
    \cup Low({"Crypto.ed25519_generate"}, "none", CryptoErr(T("Ed25519SigningKey")))
    \cup Low({"Crypto.argon2id_hash_password"}, "none", CryptoErr(Text))

DevicesLowered ==
    Low({"CRegistration.adopt", "CRegistration.adopt_async", "CRegistration.register_async"},
        "none", T("CRegistration"))
    \cup Low({"Port.read_u8", "Mmio.read_u8"}, "none", Byte)
    \cup Low({"Mmio.read_u16"}, "none", T("u16"))
    \cup Low({"Mmio.read_u32"}, "none", T("u32"))
    \cup Low({"Port.write_u8", "Mmio.write_u8", "Mmio.write_u16", "Mmio.write_u32"},
             "none", Unit)

NumericLowered ==
    Low({"u8.try_from"}, "none", ConvErr(Byte))
    \cup As("u8.wrapping_add", "wrapping_add", "none", Byte)
    \cup As("u8.wrapping_sub", "wrapping_sub", "none", Byte)
    \cup As("u8.wrapping_mul", "wrapping_mul", "none", Byte)
    \cup As("u8.saturating_add", "saturating_add", "none", Byte)
    \cup As("u8.saturating_sub", "saturating_sub", "none", Byte)
    \cup As("u8.saturating_mul", "saturating_mul", "none", Byte)

\* A length of an Array or a Slice has no receiver mode; one of a List, a Map
\* or a Set borrows it.  count and empty are other spellings of len and is_empty.
LengthLowered ==
    UNION {As(o, "array_len", "none", UInt) :
           o \in {"Array.len", "Array.count", "Slice.len", "Slice.count"}}
    \cup UNION {As(o, "slice_is_empty", "none", Bool) :
                o \in {"Array.is_empty", "Array.empty", "Slice.is_empty", "Slice.empty"}}
    \cup Low({"List.len", "Map.len", "Set.len"}, "shared", UInt)
    \cup Low({"List.is_empty", "Map.is_empty", "Set.is_empty"}, "shared", Bool)
    \cup As("List.count", "List.len", "shared", UInt)
    \cup As("Map.count", "Map.len", "shared", UInt)
    \cup As("Set.count", "Set.len", "shared", UInt)
    \cup As("List.empty", "List.is_empty", "shared", Bool)
    \cup As("Map.empty", "Map.is_empty", "shared", Bool)
    \cup As("Set.empty", "Set.is_empty", "shared", Bool)
    \cup As("Array.iter", "collection.iter", "shared", Slice(Elem))
    \cup As("Slice.iter", "collection.iter", "shared", Slice(Elem))

ListLowered ==
    Low({"List.iter"}, "shared", Slice(Elem))
    \cup Low({"List.capacity"}, "shared", UInt)
    \cup Low({"List.get"}, "shared", Option(Ref(Elem)))
    \cup Low({"List.get_mut"}, "mutable", Option(RefMut(Elem)))
    \cup Low({"List.pop"}, "mutable", Option(Elem))
    \cup Low({"List.remove"}, "mutable", Elem)
    \cup Low({"List.push", "List.insert", "List.clear"}, "mutable", Unit)
    \cup As("List.add", "List.push", "mutable", Unit)

MapLowered ==
    Low({"Map.keys"}, "shared", Slice(Text))
    \cup Low({"Map.values"}, "shared", Slice(Elem))
    \cup Low({"Map.capacity"}, "shared", UInt)
    \cup Low({"Map.has"}, "shared", Bool)
    \cup As("Map.contains_key", "Map.has", "shared", Bool)
    \cup Low({"Map.get"}, "shared", Option(Ref(Elem)))
    \cup Low({"Map.get_mut"}, "mutable", Option(RefMut(Elem)))
    \cup Low({"Map.set", "Map.remove"}, "mutable", Option(Elem))
    \cup As("Map.insert", "Map.set", "mutable", Option(Elem))
    \cup Low({"Map.clear"}, "mutable", Unit)

SetLowered ==
    Low({"Set.iter"}, "shared", Slice(Elem))
    \cup Low({"Set.capacity"}, "shared", UInt)
    \cup Low({"Set.has"}, "shared", Bool)
    \cup As("Set.contains", "Set.has", "shared", Bool)
    \cup Low({"Set.add", "Set.remove"}, "mutable", Bool)
    \cup As("Set.insert", "Set.add", "mutable", Bool)
    \cup Low({"Set.clear"}, "mutable", Unit)

PathLowered ==
    Low({"Path.join"}, "shared", PathT)
    \cup Low({"Path.as_string"}, "shared", Text)
    \cup Low({"Path.name", "Path.extension"}, "shared", Option(Text))
    \cup Low({"Path.parent"}, "shared", Option(PathT))
    \cup Low({"Path.len"}, "shared", UInt)
    \cup Low({"Path.is_empty", "Path.is_absolute"}, "shared", Bool)

ProcessLowered ==
    Low({"ProcessOutput.status"}, "shared", SInt)
    \cup Low({"ProcessOutput.success"}, "shared", Bool)
    \cup Low({"ProcessOutput.stdout", "ProcessOutput.stderr"}, "shared", Bytes)
    \cup Low({"ProcessOutput.stdout_text", "ProcessOutput.stderr_text"}, "shared",
             ConvErr(Text))
    \cup Low({"ProcessCommand.run"}, "move", IoErr(T("ProcessOutput")))
    \cup Low({"ProcessCommand.start"}, "move", IoErr(T("ChildProcess")))
    \cup Low({"ProcessCommand.arg", "ProcessCommand.arguments", "ProcessCommand.directory",
              "ProcessCommand.environment", "ProcessCommand.clear_environment",
              "ProcessCommand.input", "ProcessCommand.input_text", "ProcessCommand.timeout"},
             "move", T("ProcessCommand"))

ChildLowered ==
    Low({"ChildProcess.write", "ChildProcess.write_text", "ChildProcess.close_input",
         "ChildProcess.kill"}, "mutable", IoErr(Unit))
    \cup Low({"ChildProcess.read_stdout", "ChildProcess.read_stderr"}, "mutable", IoErr(Bytes))
    \cup Low({"ChildProcess.try_wait"}, "mutable", IoErr(Option(SInt)))
    \cup Low({"ChildProcess.wait"}, "move", IoErr(T("ProcessOutput")))

DatabaseLowered ==
    Low({"Database.execute"}, "mutable", DataErr(UInt))
    \cup Low({"Database.query"}, "mutable", DataErr(List(JsonT)))
    \cup Low({"Database.begin", "Database.commit", "Database.rollback"}, "mutable",
             DataErr(Unit))
    \cup Low({"Database.close"}, "move", DataErr(Unit))
    \cup Low({"Database.changes"}, "shared", UInt)
    \cup Low({"Database.last_insert_id"}, "shared", SInt)

UrlLowered ==
    Low({"Url.as_string", "Url.scheme", "Url.path"}, "shared", Text)
    \cup Low({"Url.host", "Url.query"}, "shared", Option(Text))
    \cup Low({"Url.port"}, "shared", Option(UInt))
    \cup Low({"Url.join_path", "Url.query_param"}, "shared", NetErr(T("Url")))
    \cup Low({"Url.is_secure"}, "shared", Bool)

JsonLowered ==
    Low({"Json.as_string", "Json.kind"}, "shared", Text)
    \cup Low({"Json.len"}, "shared", UInt)
    \cup Low({"Json.get", "Json.at"}, "shared", Option(JsonT))
    \cup Low({"Json.as_bool"}, "shared", ConvErr(Bool))
    \cup Low({"Json.as_int"}, "shared", ConvErr(SInt))
    \cup Low({"Json.as_uint"}, "shared", ConvErr(UInt))
    \cup Low({"Json.as_f64"}, "shared", ConvErr(T("Float")))
    \cup Low({"Json.as_text"}, "shared", ConvErr(Text))
    \cup Low({"Json.is_null", "Json.is_bool", "Json.is_number", "Json.is_string",
              "Json.is_array", "Json.is_object"}, "shared", Bool)

TcpStreamLowered ==
    Low({"TcpStream.read"}, "mutable", NetErr(Bytes))
    \cup Low({"TcpStream.read_async", "TcpStream.read_async_timeout"}, "mutable",
             Future(NetErr(Bytes)))
    \cup Low({"TcpStream.write"}, "mutable", NetErr(UInt))
    \cup Low({"TcpStream.write_async", "TcpStream.write_async_timeout"}, "mutable",
             Future(NetErr(UInt)))
    \cup Low({"TcpStream.shutdown_read", "TcpStream.shutdown_write"}, "mutable", NetErr(Unit))
    \cup Low({"TcpStream.close"}, "mutable", Unit)

TlsStreamLowered ==
    Low({"TlsStream.read"}, "mutable", NetErr(Bytes))
    \cup Low({"TlsStream.read_async", "TlsStream.read_async_timeout"}, "mutable",
             Future(NetErr(Bytes)))
    \cup Low({"TlsStream.write"}, "mutable", NetErr(UInt))
    \cup Low({"TlsStream.write_async", "TlsStream.write_async_timeout"}, "mutable",
             Future(NetErr(UInt)))
    \cup Low({"TlsStream.close"}, "mutable", Unit)

HttpObjectsLowered ==
    Low({"HttpResponse.status", "HttpResponse.len"}, "shared", UInt)
    \cup Low({"HttpResponse.is_success", "HttpResponse.is_empty"}, "shared", Bool)
    \cup Low({"HttpResponse.body"}, "shared", Bytes)
    \cup Low({"HttpResponse.text"}, "shared", HttpErr(Text))
    \cup Low({"HttpResponse.json"}, "shared", HttpErr(JsonT))
    \cup Low({"HttpResponse.url"}, "shared", Text)
    \cup Low({"HttpResponse.header"}, "shared", Option(Text))
    \cup Low({"HttpRequest.header", "HttpRequest.text", "HttpRequest.bytes",
              "HttpRequest.json"}, "move", HttpErr(T("HttpRequest")))
    \cup Low({"HttpRequest.send", "HttpRequest.send_timeout"}, "move",
             Future(HttpErr(T("HttpResponse"))))

SocketsLowered ==
    Low({"TcpListener.accept", "TcpListener.accept_timeout"}, "shared",
        Future(NetErr(T("TcpStream"))))
    \cup Low({"TcpListener.local_port"}, "shared", NetErr(UInt))
    \cup Low({"TcpListener.close"}, "mutable", Unit)
    \cup Low({"UdpSocket.receive_from"}, "mutable", NetErr(T("UdpDatagram")))
    \cup Low({"UdpSocket.receive_from_async", "UdpSocket.receive_from_async_timeout"},
             "mutable", Future(NetErr(T("UdpDatagram"))))
    \cup Low({"UdpSocket.send_to", "UdpSocket.local_port"}, "mutable", NetErr(UInt))
    \cup Low({"UdpSocket.send_to_async", "UdpSocket.send_to_async_timeout"}, "mutable",
             Future(NetErr(UInt)))
    \cup Low({"UdpSocket.close"}, "mutable", Unit)

AddressesLowered ==
    Low({"UdpDatagram.bytes"}, "shared", Bytes)
    \cup Low({"UdpDatagram.source"}, "shared", Addr)
    \cup Low({"UdpDatagram.len"}, "shared", UInt)
    \cup Low({"UdpDatagram.is_empty"}, "shared", Bool)
    \cup Low({"IpAddress.as_string"}, "shared", Text)
    \cup Low({"IpAddress.is_ipv4", "IpAddress.is_ipv6", "IpAddress.is_loopback",
              "IpAddress.is_unspecified"}, "shared", Bool)

ConcurrencyLowered ==
    Low({"Thread.join"}, "move", Elem)
    \cup Low({"Task.cancel"}, "move", Unit)
    \cup Low({"Task.is_finished"}, "shared", Bool)
    \cup Low({"Mutex.share"}, "shared", <<"Mutex", Elem>>)
    \cup Low({"Mutex.lock"}, "shared", <<"MutexGuard", Elem>>)
    \cup Low({"Channel.share"}, "shared", <<"Channel", Elem>>)
    \cup Low({"Channel.send", "Channel.is_closed"}, "shared", Bool)
    \cup Low({"Channel.receive"}, "shared", Option(Elem))
    \cup Low({"Channel.close"}, "shared", Unit)
    \cup Low({"Channel.len", "Channel.capacity"}, "shared", UInt)
    \cup Low({"AtomicInt.share"}, "shared", T("AtomicInt"))
    \cup Low({"AtomicInt.store", "AtomicInt.store_relaxed", "AtomicInt.store_release",
              "AtomicInt.store_seq_cst"}, "shared", Unit)
    \cup Low({"AtomicInt.load", "AtomicInt.load_relaxed", "AtomicInt.load_acquire",
              "AtomicInt.load_seq_cst", "AtomicInt.add", "AtomicInt.add_relaxed",
              "AtomicInt.add_acquire", "AtomicInt.add_release", "AtomicInt.add_acq_rel",
              "AtomicInt.add_seq_cst", "AtomicInt.fetch_add", "AtomicInt.fetch_add_relaxed",
              "AtomicInt.fetch_add_acquire", "AtomicInt.fetch_add_release",
              "AtomicInt.fetch_add_acq_rel", "AtomicInt.fetch_add_seq_cst"}, "shared", SInt)

ForeignLowered ==
    Low({"CString.len"}, "shared", UInt)
    \cup Low({"CString.is_empty"}, "shared", Bool)
    \cup Low({"CString.to_string"}, "shared", Text)
    \cup Low({"CString.as_c_str"}, "shared", T("CStr"))
    \cup Low({"SecretBytes.len"}, "shared", UInt)
    \cup Low({"SecretBytes.is_empty", "SecretBytes.constant_time_equals"}, "shared", Bool)

MemoryLowered ==
    Low({"Memory.len", "Memory.alignment"}, "shared", UInt)
    \cup Low({"Memory.is_empty"}, "shared", Bool)
    \cup Low({"Memory.read"}, "shared", Byte)
    \cup Low({"Memory.as_ptr"}, "shared", <<"MemoryPointer", Byte>>)
    \cup Low({"Memory.as_mut_ptr"}, "mutable", <<"MutMemoryPointer", Byte>>)
    \cup Low({"Memory.write", "Memory.fill", "Memory.copy_from"}, "mutable", Unit)

\* The result of offset is the receiver's own pointer type.
PointersLowered ==
    Low({"MemoryPointer.offset"}, "none", <<"MemoryPointer", Byte>>)
    \cup As("MutMemoryPointer.offset", "MemoryPointer.offset", "none",
            <<"MutMemoryPointer", Byte>>)
    \cup Low({"MemoryPointer.read"}, "none", Byte)
    \cup Low({"MemoryPointer.write"}, "none", Unit)

ClocksLowered ==
    Low({"Instant.elapsed"}, "none", Dur)
    \cup Low({"Duration.nanos", "Duration.millis", "Duration.seconds"}, "none", UInt)

TextLowered ==
    Low({"String.len", "String.capacity"}, "shared", UInt)
    \cup Low({"String.is_empty", "String.contains", "String.starts_with", "String.ends_with"},
             "shared", Bool)
    \cup Low({"String.push", "String.push_str", "String.clear"}, "mutable", Unit)
    \cup As("String.append", "String.push_str", "mutable", Unit)
    \cup As("String.add", "String.push_str", "mutable", Unit)

RegistrationLowered ==
    Low({"CRegistration.close"}, "move", Unit)
    \cup Low({"CRegistration.is_active"}, "shared", Bool)

NamedLowered ==
    As("String", "String.new", "none", Text)
    \cup As("Path", "Path.new", "none", PathT)
    \cup As("Url", "Url.parse", "none", NetErr(T("Url")))
    \cup As("Json", "Json.parse", "none", ConvErr(JsonT))
    \cup As("SocketAddress", "SocketAddress.new", "none", Addr)

\* Some, Ok and Err become constructions, not intrinsic calls.
PrintLowered ==
    Low({"print"}, "none", Unit)
    \cup Low({"u8"}, "none", Byte)
    \cup As("Some", "construct", "none", Option(Elem))
    \cup As("Ok", "construct", "none", Result(Elem, Infer))
    \cup As("Err", "construct", "none", Result(Infer, Elem))

Lowered ==
    AsyncLowered \cup SocketConstructorsLowered \cup HttpLowered
    \cup JsonConstructorsLowered \cup MemoryConstructorsLowered
    \cup CollectionConstructorsLowered \cup ExportLowered \cup SystemLowered
    \cup CryptoLowered \cup DevicesLowered \cup NumericLowered \cup LengthLowered
    \cup ListLowered \cup MapLowered \cup SetLowered \cup PathLowered \cup ProcessLowered
    \cup ChildLowered \cup DatabaseLowered \cup UrlLowered \cup JsonLowered
    \cup TcpStreamLowered \cup TlsStreamLowered \cup HttpObjectsLowered
    \cup SocketsLowered \cup AddressesLowered \cup ConcurrencyLowered
    \cup ForeignLowered \cup MemoryLowered \cup PointersLowered \cup ClocksLowered
    \cup TextLowered \cup RegistrationLowered \cup NamedLowered \cup PrintLowered

\* Type::is_copy: a value of such a type is copied where others are moved.
RECURSIVE HirCopies(_)
HirCopies(t) ==
    \/ Head(t) \in {"Unit", "Bool", "Char", "Int", "UInt", "u8", "u16", "u32", "Float",
                   "Instant", "Duration", "IpAddress", "Reference", "MutReference",
                   "RawPointer", "MemoryPointer", "MutMemoryPointer", "CFunction", "Slice",
                   "Str", "CStr"}
    \/ Head(t) = "Option" /\ HirCopies(t[2])
    \/ Head(t) = "Result" /\ HirCopies(t[2]) /\ HirCopies(t[3])
    \/ Head(t) = "Array" /\ HirCopies(t[2])

-----------------------------------------------------------------------------
(* How MIR lowering (mir.rs, lower_call) passes each operand of an          *)
(* intrinsic call: a reference to the caller's place, a copy, or a move     *)
(* that clears the drop flag of the local it names (consume_operand).       *)
(* Positions count from 1 and include the receiver.                         *)

\* name.starts_with("File.") and name.starts_with("Directory.").
FileTargets ==
    {"File.read_text", "File.read_bytes", "File.size", "File.modified_seconds",
     "File.write_text", "File.write_bytes", "File.append_text", "File.append_bytes",
     "File.copy", "File.move", "File.remove", "File.exists"}

DirectoryTargets ==
    {"Directory.read", "Directory.create", "Directory.create_all", "Directory.remove",
     "Directory.exists"}

\* Targets all of whose arguments after the first are borrowed.
BorrowingTargets ==
    FileTargets \cup DirectoryTargets
    \cup {"Path.new", "Path.join", "Database.open", "DataStore.open", "Crypto.sha256",
          "Crypto.hmac_sha256", "Crypto.hmac_sha256_verify", "Crypto.aes256_gcm_siv_seal",
          "Crypto.aes256_gcm_siv_open", "Crypto.encode_aead_envelope",
          "Crypto.decode_aead_envelope", "Crypto.ed25519_public_key", "Crypto.ed25519_sign",
          "Crypto.ed25519_verify", "Crypto.ed25519_key_id", "Crypto.ed25519_verify_keyed",
          "Crypto.encode_ed25519_public_key", "Crypto.decode_ed25519_public_key",
          "Crypto.encode_ed25519_signature", "Crypto.decode_ed25519_signature",
          "Crypto.argon2id_hash_password", "Crypto.argon2id_verify_password"}

\* Targets that borrow only the arguments at some positions.
BorrowedPositions ==
    {<<t, 2>> : t \in {"String.push_str", "String.contains", "String.starts_with",
                       "String.ends_with", "Map.has", "Map.get", "Map.get_mut",
                       "Map.remove", "Set.has", "Set.remove"}}
    \cup {<<"Memory.copy_from", 3>>}
    \cup {"Database.execute", "Database.query"} \X {2, 3}
    \cup {"Crypto.hkdf_sha256"} \X {2, 3}
    \cup {"Crypto.ed25519_verify_lifecycle"} \X {2, 3, 4}

ArgumentMode(target, position, receiver) ==
    IF position = 1
    THEN IF target = "CString.new" THEN "shared" ELSE receiver
    ELSE IF target \in BorrowingTargets \/ <<target, position>> \in BorrowedPositions
         THEN "shared" ELSE "none"

\* The operand a call passes for an argument of type t that is a local variable.
Passing(target, position, receiver, t) ==
    IF \/ ArgumentMode(target, position, receiver) \in {"shared", "mutable"}
       \/ target = "print" /\ ~HirCopies(t)
    THEN "borrow"
    ELSE IF HirCopies(t) THEN "copy" ELSE "move"
=============================================================================
