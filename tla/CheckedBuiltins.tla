--------------------------- MODULE CheckedBuiltins ---------------------------
(***************************************************************************)
(* What the type checker accepts for every built-in operation              *)
(* (check_expression, the Call arm): the types each position accepts, the  *)
(* result, and the unsafe capability the call needs.  A method's receiver  *)
(* is its first position; names are the ones written in the program, so a  *)
(* method has an entry for each of its spellings.                          *)
(***************************************************************************)
EXTENDS BuiltinTypes

Sig(ops, params, result) ==
    {[op |-> o, params |-> params, result |-> result, needs |-> "none"] : o \in ops}

Unsafe(capability, rows) == {[r EXCEPT !.needs = capability] : r \in rows}

AsyncCalls ==
    Sig({"Async.yield"}, <<>>, Future(Unit))
    \cup Sig({"Async.spawn"}, <<{Future(Unit)}>>, <<"Task", Unit>>)
    \cup Sig({"Async.sleep"}, <<{Dur}>>, Future(Unit))
    \cup Sig({"Async.connect"}, <<{Addr}>>, Future(NetErr(T("TcpStream"))))
    \cup Sig({"Async.connect_timeout"}, <<{Addr}, {Dur}>>, Future(NetErr(T("TcpStream"))))
    \cup Sig({"Async.resolve"}, <<AnyText>>, Future(NetErr(List(T("IpAddress")))))
    \cup Sig({"Async.resolve_timeout"}, <<AnyText, {Dur}>>, Future(NetErr(List(T("IpAddress")))))
    \cup Sig({"Async.read_text"}, <<{PathT}>>, Future(IoErr(Text)))
    \cup Sig({"Async.read_bytes"}, <<{PathT}>>, Future(IoErr(Bytes)))
    \cup Sig({"Async.write_text"}, <<{PathT}, {Text}>>, Future(IoErr(Unit)))
    \cup Sig({"Async.write_bytes"}, <<{PathT}, {Bytes}>>, Future(IoErr(Unit)))

NamedConstructors ==
    Sig({"String"}, <<>>, Text)
    \cup Sig({"Path"}, <<AnyText>>, PathT)
    \cup Sig({"Url"}, <<AnyText>>, NetErr(T("Url")))
    \cup Sig({"Json"}, <<AnyText>>, ConvErr(JsonT))
    \cup Sig({"SocketAddress"}, <<AnyText \cup {T("IpAddress")}, AnyInt>>, Addr)
    \cup Sig({"IpAddress.parse"}, <<AnyText>>, NetErr(T("IpAddress")))

JsonConstructors ==
    Sig({"Json.null"}, <<>>, JsonT)
    \cup Sig({"Json.bool"}, <<{Bool}>>, JsonT)
    \cup Sig({"Json.int"}, <<{SInt}>>, JsonT)
    \cup Sig({"Json.uint"}, <<{UInt, Byte}>>, JsonT)
    \cup Sig({"Json.float"}, <<{T("Float")}>>, ConvErr(JsonT))
    \cup Sig({"Json.string"}, <<AnyText>>, ConvErr(JsonT))
    \cup Sig({"Json.array"}, <<{List(JsonT)}>>, ConvErr(JsonT))
    \cup Sig({"Json.object"}, <<{<<"Map", Text, JsonT>>}>>, ConvErr(JsonT))
    \cup Sig({"Json.from"}, <<{T("Record")}>>, ConvErr(JsonT))

FromJson == Sig({"Record.from_json"}, <<{JsonT}>>, ConvErr(T("Record")))

NetworkConstructors ==
    Sig({"Dns.resolve"}, <<AnyText>>, NetErr(List(T("IpAddress"))))
    \cup Sig({"Tls.connect"}, <<{T("TcpStream")}, AnyText>>, Future(NetErr(T("TlsStream"))))
    \cup Sig({"Tls.connect_timeout"}, <<{T("TcpStream")}, AnyText, {Dur}>>,
             Future(NetErr(T("TlsStream"))))

HttpUrl == AnyText \cup {T("Url")}
HttpBody == AnyText \cup ByteSeq
HttpReply == Future(HttpErr(T("HttpResponse")))

HttpCalls ==
    Sig({"Http.get", "Http.delete"}, <<HttpUrl>>, HttpReply)
    \cup Sig({"Http.get_timeout", "Http.delete_timeout"}, <<HttpUrl, {Dur}>>, HttpReply)
    \cup Sig({"Http.post", "Http.put", "Http.patch"}, <<HttpUrl, HttpBody>>, HttpReply)
    \cup Sig({"Http.post_timeout", "Http.put_timeout", "Http.patch_timeout"},
             <<HttpUrl, HttpBody, {Dur}>>, HttpReply)
    \cup Sig({"Http.post_json"}, <<HttpUrl, {JsonT}>>, HttpReply)
    \cup Sig({"Http.post_json_timeout"}, <<HttpUrl, {JsonT}, {Dur}>>, HttpReply)
    \cup Sig({"Http.request"}, <<AnyText, HttpUrl>>, HttpErr(T("HttpRequest")))

ServerConstructors ==
    Sig({"UdpSocket.bind"}, <<{Addr}>>, NetErr(T("UdpSocket")))
    \cup Sig({"TcpListener.bind"}, <<{Addr}>>, NetErr(T("TcpListener")))
    \cup Sig({"Database.open"}, <<{PathT}>>, DataErr(T("Database")))
    \cup Sig({"Database.memory"}, <<>>, DataErr(T("Database")))

DeviceCalls ==
    Unsafe("device_io",
        Sig({"Port.read_u8"}, <<{T("u16")}>>, Byte)
        \cup Sig({"Port.write_u8"}, <<{T("u16")}, {Byte}>>, Unit)
        \cup Sig({"Mmio.read_u8"}, <<{T("u16")}>>, Byte)
        \cup Sig({"Mmio.read_u16"}, <<{T("u16")}>>, T("u16"))
        \cup Sig({"Mmio.read_u32"}, <<{T("u16")}>>, T("u32"))
        \cup Sig({"Mmio.write_u8"}, <<{T("u16")}, {Byte}>>, Unit)
        \cup Sig({"Mmio.write_u16"}, <<{T("u16")}, {T("u16")}>>, Unit)
        \cup Sig({"Mmio.write_u32"}, <<{T("u16")}, {T("u32")}>>, Unit))

FileCalls ==
    Sig({"Path.new"}, <<AnyText>>, PathT)
    \cup Sig({"File.read_text"}, <<{PathT}>>, IoErr(Text))
    \cup Sig({"File.read_bytes"}, <<{PathT}>>, IoErr(Bytes))
    \cup Sig({"File.write_text", "File.append_text"}, <<{PathT}, AnyText>>, IoErr(Unit))
    \cup Sig({"File.write_bytes", "File.append_bytes"}, <<{PathT}, ByteSeq>>, IoErr(Unit))
    \cup Sig({"File.copy", "File.move"}, <<{PathT}, {PathT}>>, IoErr(Unit))
    \cup Sig({"File.remove"}, <<{PathT}>>, IoErr(Unit))
    \cup Sig({"File.exists", "Directory.exists"}, <<{PathT}>>, Bool)
    \cup Sig({"Directory.create", "Directory.create_all", "Directory.remove"},
             <<{PathT}>>, IoErr(Unit))
    \cup Sig({"Directory.read"}, <<{PathT}>>, IoErr(List(PathT)))
    \cup Sig({"File.size", "File.modified_seconds"}, <<{PathT}>>, IoErr(UInt))

ClockAndProcessCalls ==
    Sig({"Time.now"}, <<>>, T("Instant"))
    \cup Sig({"Time.unix_seconds"}, <<>>, UInt)
    \cup Sig({"Time.ticks"}, <<>>, T("u32"))
    \cup Sig({"Time.sleep"}, <<{Dur}>>, Unit)
    \cup Sig({"Duration.from_nanos", "Duration.from_millis", "Duration.from_seconds"},
             <<AnyInt>>, Dur)
    \cup Sig({"Environment.arguments"}, <<>>, List(Text))
    \cup Sig({"Environment.get"}, <<AnyText>>, Option(Text))
    \cup Sig({"Process.command"}, <<{PathT}>>, T("ProcessCommand"))
    \cup Sig({"Process.run"}, <<{PathT}, {List(Text)}>>, IoErr(T("ProcessOutput")))

SecretCalls ==
    Sig({"Crypto.random_bytes"}, <<AnyInt>>, CryptoErr(Bytes))
    \cup Sig({"Crypto.random_secret"}, <<AnyInt>>, CryptoErr(Secret))
    \cup Sig({"Crypto.import_secret"}, <<{Bytes}>>, CryptoErr(Secret))
    \cup Sig({"Crypto.sha256"}, <<{Bytes}>>, CryptoErr(Bytes))
    \cup Sig({"Crypto.hmac_sha256"}, <<{Secret}, {Bytes}>>, CryptoErr(Bytes))
    \cup Sig({"Crypto.hmac_sha256_verify"}, <<{Secret}, {Bytes}, {Bytes}>>, CryptoErr(Bool))
    \cup Sig({"Crypto.hkdf_sha256"}, <<{Bytes}, {Secret}, {Bytes}, AnyInt>>, CryptoErr(Secret))

SealCalls ==
    Sig({"Crypto.aes256_gcm_siv_seal"}, <<{Secret}, {Secret}, {Bytes}>>,
        CryptoErr(T("AeadEnvelope")))
    \cup Sig({"Crypto.aes256_gcm_siv_open"}, <<{Secret}, {T("AeadEnvelope")}, {Bytes}>>,
             CryptoErr(Secret))
    \cup Sig({"Crypto.encode_aead_envelope"}, <<{T("AeadEnvelope")}>>, CryptoErr(Bytes))
    \cup Sig({"Crypto.decode_aead_envelope"}, <<{Bytes}>>, CryptoErr(T("AeadEnvelope")))

SignatureCalls ==
    Sig({"Crypto.ed25519_generate"}, <<>>, CryptoErr(T("Ed25519SigningKey")))
    \cup Sig({"Crypto.ed25519_public_key"}, <<{T("Ed25519SigningKey")}>>, CryptoErr(Bytes))
    \cup Sig({"Crypto.ed25519_sign"}, <<{T("Ed25519SigningKey")}, {Bytes}>>, CryptoErr(Bytes))
    \cup Sig({"Crypto.ed25519_verify"}, <<{Bytes}, {Bytes}, {Bytes}>>, CryptoErr(Bool))
    \cup Sig({"Crypto.ed25519_key_id"}, <<{Bytes}>>, CryptoErr(Bytes))
    \cup Sig({"Crypto.ed25519_verify_keyed"}, <<{Bytes}, {Bytes}, {Bytes}, {Bytes}>>,
             CryptoErr(Bool))
    \cup Sig({"Crypto.ed25519_verify_lifecycle"},
             <<{Bytes}, {Bytes}, {Bytes}, {Bytes}, {UInt}, {UInt}, {Bool}, {UInt}>>,
             CryptoErr(Bool))
    \cup Sig({"Crypto.encode_ed25519_public_key", "Crypto.decode_ed25519_public_key",
              "Crypto.encode_ed25519_signature", "Crypto.decode_ed25519_signature"},
             <<{Bytes}>>, CryptoErr(Bytes))

PasswordCalls ==
    Sig({"Crypto.argon2id_hash_password"}, <<{Secret}>>, CryptoErr(Text))
    \cup Sig({"Crypto.argon2id_verify_password"}, <<{Secret}, AnyText>>, CryptoErr(Bool))

Memories == {T("Memory")}
Context == <<"RawPointer", Unit>>
CFun == T("CFunction")

ForeignConstructors ==
    Sig({"String.new"}, <<>>, Text)
    \cup Sig({"String.with_capacity"}, <<AnyInt \cup {Bool, Text}>>, Text)
    \cup Sig({"CString.new"}, <<AnyText \cup {T("CStr")}>>, TextErr(T("CString")))
    \cup Sig({"CExport.callback"}, <<{T("ExportedFunction")}>>, CFun)
    \cup Sig({"Memory.allocate"}, <<AnyInt, AnyInt>>, TextErr(T("Memory")))

Registrations ==
    Unsafe("foreign",
        Sig({"CRegistration.register_async"}, <<{T("Function")}, {CFun}, {CFun}, {CFun}>>,
            T("CRegistration"))
        \cup Sig({"CRegistration.adopt"}, <<{Context}, {CFun}>>, T("CRegistration"))
        \cup Sig({"CRegistration.adopt_async"}, <<{Context}, {CFun}, {CFun}>>,
                 T("CRegistration")))

ListConstructors ==
    Sig({"List.new"}, <<>>, List(Infer))
    \cup Sig({"List.of"}, <<{Elem}, {Elem}>>, List(Elem))
    \cup Sig({"List.with_capacity"}, <<AnyInt>>, List(Infer))

SharedConstructors ==
    Sig({"Mutex.new"}, <<{Elem}>>, <<"Mutex", Elem>>)
    \cup Sig({"AtomicInt.new"}, <<{SInt}>>, T("AtomicInt"))
    \cup Sig({"Channel.bounded"}, <<AnyInt>>, TextErr(<<"Channel", Infer>>))

MapAndSetConstructors ==
    Sig({"Map.new"}, <<>>, <<"Map", Infer, Infer>>)
    \cup Sig({"Map.with_capacity"}, <<AnyInt>>, <<"Map", Infer, Infer>>)
    \cup Sig({"Map.of"}, <<{Text}, {Elem}>>, MapT)
    \cup Sig({"Set.new"}, <<>>, <<"Set", Infer>>)
    \cup Sig({"Set.with_capacity"}, <<AnyInt>>, <<"Set", Infer>>)
    \cup Sig({"Set.of"}, <<{Elem}, {Elem}>>, SetT)

NumericCalls ==
    Sig({"u8"}, <<AnyInt>>, Byte)
    \cup Sig({"u8.try_from"}, <<AnyInt>>, ConvErr(Byte))
    \cup Sig({"u8.wrapping_add", "u8.wrapping_sub", "u8.wrapping_mul",
              "u8.saturating_add", "u8.saturating_sub", "u8.saturating_mul"},
             <<{Byte}, {Byte}>>, Byte)

LengthMethods ==
    Sig({"Array.len", "Array.count"}, <<{<<"Array", Elem>>}>>, UInt)
    \cup Sig({"Slice.len", "Slice.count"}, <<{Slice(Elem)}>>, UInt)
    \cup Sig({"List.len", "List.count"}, <<{List(Elem)}>>, UInt)
    \cup Sig({"Map.len", "Map.count"}, <<{MapT}>>, UInt)
    \cup Sig({"Set.len", "Set.count"}, <<{SetT}>>, UInt)
    \cup Sig({"Array.is_empty", "Array.empty"}, <<{<<"Array", Elem>>}>>, Bool)
    \cup Sig({"Slice.is_empty", "Slice.empty"}, <<{Slice(Elem)}>>, Bool)
    \cup Sig({"List.is_empty", "List.empty"}, <<{List(Elem)}>>, Bool)
    \cup Sig({"Map.is_empty", "Map.empty"}, <<{MapT}>>, Bool)
    \cup Sig({"Set.is_empty", "Set.empty"}, <<{SetT}>>, Bool)
    \cup Sig({"Array.iter"}, <<{<<"Array", Elem>>}>>, Slice(Elem))
    \cup Sig({"Slice.iter"}, <<{Slice(Elem)}>>, Slice(Elem))

ListMethods ==
    Sig({"List.iter"}, <<{List(Elem)}>>, Slice(Elem))
    \cup Sig({"List.capacity"}, <<{List(Elem)}>>, UInt)
    \cup Sig({"List.push", "List.add"}, <<{List(Elem)}, {Elem}>>, Unit)
    \cup Sig({"List.pop"}, <<{List(Elem)}>>, Option(Elem))
    \cup Sig({"List.get"}, <<{List(Elem)}, AnyInt>>, Option(Ref(Elem)))
    \cup Sig({"List.get_mut"}, <<{List(Elem)}, AnyInt>>, Option(RefMut(Elem)))
    \cup Sig({"List.insert"}, <<{List(Elem)}, AnyInt, {Elem}>>, Unit)
    \cup Sig({"List.remove"}, <<{List(Elem)}, AnyInt>>, Elem)
    \cup Sig({"List.clear"}, <<{List(Elem)}>>, Unit)

MapMethods ==
    Sig({"Map.keys"}, <<{MapT}>>, Slice(Text))
    \cup Sig({"Map.values"}, <<{MapT}>>, Slice(Elem))
    \cup Sig({"Map.capacity"}, <<{MapT}>>, UInt)
    \cup Sig({"Map.has", "Map.contains_key"}, <<{MapT}, {Text}>>, Bool)
    \cup Sig({"Map.get"}, <<{MapT}, {Text}>>, Option(Ref(Elem)))
    \cup Sig({"Map.get_mut"}, <<{MapT}, {Text}>>, Option(RefMut(Elem)))
    \cup Sig({"Map.remove"}, <<{MapT}, {Text}>>, Option(Elem))
    \cup Sig({"Map.set", "Map.insert"}, <<{MapT}, {Text}, {Elem}>>, Option(Elem))
    \cup Sig({"Map.clear"}, <<{MapT}>>, Unit)

SetMethods ==
    Sig({"Set.iter"}, <<{SetT}>>, Slice(Elem))
    \cup Sig({"Set.capacity"}, <<{SetT}>>, UInt)
    \cup Sig({"Set.has", "Set.contains", "Set.remove", "Set.add", "Set.insert"},
             <<{SetT}, {Elem}>>, Bool)
    \cup Sig({"Set.clear"}, <<{SetT}>>, Unit)

AtomicLoads == {"AtomicInt.load", "AtomicInt.load_relaxed", "AtomicInt.load_acquire",
                "AtomicInt.load_seq_cst"}
AtomicStores == {"AtomicInt.store", "AtomicInt.store_relaxed", "AtomicInt.store_release",
                 "AtomicInt.store_seq_cst"}
AtomicAdds == {"AtomicInt.add", "AtomicInt.add_relaxed", "AtomicInt.add_acquire",
               "AtomicInt.add_release", "AtomicInt.add_acq_rel", "AtomicInt.add_seq_cst",
               "AtomicInt.fetch_add", "AtomicInt.fetch_add_relaxed",
               "AtomicInt.fetch_add_acquire", "AtomicInt.fetch_add_release",
               "AtomicInt.fetch_add_acq_rel", "AtomicInt.fetch_add_seq_cst"}

ConcurrencyMethods ==
    Sig({"Thread.join"}, <<{<<"Thread", Elem>>}>>, Elem)
    \cup Sig({"Task.cancel"}, <<{<<"Task", Unit>>}>>, Unit)
    \cup Sig({"Task.is_finished"}, <<{<<"Task", Unit>>}>>, Bool)
    \cup Sig({"Mutex.share"}, <<{<<"Mutex", Elem>>}>>, <<"Mutex", Elem>>)
    \cup Sig({"Mutex.lock"}, <<{<<"Mutex", Elem>>}>>, <<"MutexGuard", Elem>>)
    \cup Sig({"Channel.share"}, <<{<<"Channel", Elem>>}>>, <<"Channel", Elem>>)
    \cup Sig({"Channel.send"}, <<{<<"Channel", Elem>>}, {Elem}>>, Bool)
    \cup Sig({"Channel.receive"}, <<{<<"Channel", Elem>>}>>, Option(Elem))
    \cup Sig({"Channel.close"}, <<{<<"Channel", Elem>>}>>, Unit)
    \cup Sig({"Channel.len", "Channel.capacity"}, <<{<<"Channel", Elem>>}>>, UInt)
    \cup Sig({"Channel.is_closed"}, <<{<<"Channel", Elem>>}>>, Bool)
    \cup Sig({"AtomicInt.share"}, <<{T("AtomicInt")}>>, T("AtomicInt"))
    \cup Sig(AtomicLoads, <<{T("AtomicInt")}>>, SInt)
    \cup Sig(AtomicStores, <<{T("AtomicInt")}, {SInt}>>, Unit)
    \cup Sig(AtomicAdds, <<{T("AtomicInt")}, {SInt}>>, SInt)

CStrings == {T("CString"), T("CStr")}

ForeignMethods ==
    Sig({"CString.len"}, <<CStrings>>, UInt)
    \cup Sig({"CString.is_empty"}, <<CStrings>>, Bool)
    \cup Sig({"CString.to_string"}, <<CStrings>>, Text)
    \cup Sig({"CString.as_c_str"}, <<{T("CString")}>>, T("CStr"))
    \cup Sig({"SecretBytes.len"}, <<{Secret}>>, UInt)
    \cup Sig({"SecretBytes.is_empty"}, <<{Secret}>>, Bool)
    \cup Sig({"SecretBytes.constant_time_equals"}, <<{Secret}, {Secret}>>, Bool)
    \cup Sig({"CRegistration.close"}, <<{T("CRegistration")}>>, Unit)
    \cup Sig({"CRegistration.is_active"}, <<{T("CRegistration")}>>, Bool)

ConstPtr == <<"MemoryPointer", Byte>>
MutPtr == <<"MutMemoryPointer", Byte>>

MemoryMethods ==
    Sig({"Memory.len", "Memory.alignment"}, <<Memories>>, UInt)
    \cup Sig({"Memory.is_empty"}, <<Memories>>, Bool)
    \cup Sig({"Memory.as_ptr"}, <<Memories>>, ConstPtr)
    \cup Sig({"Memory.as_mut_ptr"}, <<Memories>>, MutPtr)
    \cup Sig({"Memory.read"}, <<Memories, AnyInt>>, Byte)
    \cup Sig({"Memory.write"}, <<Memories, AnyInt, {Byte}>>, Unit)
    \cup Sig({"Memory.fill"}, <<Memories, {Byte}>>, Unit)
    \cup Sig({"Memory.copy_from"}, <<Memories, AnyInt, Memories, AnyInt, AnyInt>>, Unit)

PointerMethods ==
    Unsafe("raw_memory",
        Sig({"MemoryPointer.offset"}, <<{ConstPtr}, {SInt}>>, ConstPtr)
        \cup Sig({"MutMemoryPointer.offset"}, <<{MutPtr}, {SInt}>>, MutPtr)
        \cup Sig({"MemoryPointer.read"}, <<{ConstPtr, MutPtr}>>, Byte)
        \cup Sig({"MemoryPointer.write"}, <<{MutPtr}, {Byte}>>, Unit))

Command == T("ProcessCommand")
Child == T("ChildProcess")

PathAndOutputMethods ==
    Sig({"Path.join"}, <<{PathT}, AnyText \cup {PathT}>>, PathT)
    \cup Sig({"Path.len"}, <<{PathT}>>, UInt)
    \cup Sig({"Path.is_empty", "Path.is_absolute"}, <<{PathT}>>, Bool)
    \cup Sig({"Path.as_string"}, <<{PathT}>>, Text)
    \cup Sig({"Path.name", "Path.extension"}, <<{PathT}>>, Option(Text))
    \cup Sig({"Path.parent"}, <<{PathT}>>, Option(PathT))
    \cup Sig({"ProcessOutput.status"}, <<{T("ProcessOutput")}>>, SInt)
    \cup Sig({"ProcessOutput.success"}, <<{T("ProcessOutput")}>>, Bool)
    \cup Sig({"ProcessOutput.stdout", "ProcessOutput.stderr"}, <<{T("ProcessOutput")}>>, Bytes)
    \cup Sig({"ProcessOutput.stdout_text", "ProcessOutput.stderr_text"},
             <<{T("ProcessOutput")}>>, ConvErr(Text))

CommandMethods ==
    Sig({"ProcessCommand.arg", "ProcessCommand.input_text"}, <<{Command}, AnyText>>, Command)
    \cup Sig({"ProcessCommand.arguments"}, <<{Command}, {List(Text)}>>, Command)
    \cup Sig({"ProcessCommand.directory"}, <<{Command}, {PathT}>>, Command)
    \cup Sig({"ProcessCommand.environment"}, <<{Command}, AnyText, AnyText>>, Command)
    \cup Sig({"ProcessCommand.clear_environment"}, <<{Command}>>, Command)
    \cup Sig({"ProcessCommand.input"}, <<{Command}, {Bytes}>>, Command)
    \cup Sig({"ProcessCommand.timeout"}, <<{Command}, {Dur}>>, Command)
    \cup Sig({"ProcessCommand.run"}, <<{Command}>>, IoErr(T("ProcessOutput")))
    \cup Sig({"ProcessCommand.start"}, <<{Command}>>, IoErr(Child))

ChildMethods ==
    Sig({"ChildProcess.write"}, <<{Child}, ByteSeq>>, IoErr(Unit))
    \cup Sig({"ChildProcess.write_text"}, <<{Child}, AnyText>>, IoErr(Unit))
    \cup Sig({"ChildProcess.read_stdout", "ChildProcess.read_stderr"}, <<{Child}, AnyInt>>,
             IoErr(Bytes))
    \cup Sig({"ChildProcess.close_input", "ChildProcess.kill"}, <<{Child}>>, IoErr(Unit))
    \cup Sig({"ChildProcess.try_wait"}, <<{Child}>>, IoErr(Option(SInt)))
    \cup Sig({"ChildProcess.wait"}, <<{Child}>>, IoErr(T("ProcessOutput")))

DatabaseMethods ==
    Sig({"Database.execute"}, <<{T("Database")}, AnyText, {List(JsonT)}>>, DataErr(UInt))
    \cup Sig({"Database.query"}, <<{T("Database")}, AnyText, {List(JsonT)}>>,
             DataErr(List(JsonT)))
    \cup Sig({"Database.begin", "Database.commit", "Database.rollback", "Database.close"},
             <<{T("Database")}>>, DataErr(Unit))
    \cup Sig({"Database.changes"}, <<{T("Database")}>>, UInt)
    \cup Sig({"Database.last_insert_id"}, <<{T("Database")}>>, SInt)

UrlMethods ==
    Sig({"Url.as_string", "Url.scheme", "Url.path"}, <<{T("Url")}>>, Text)
    \cup Sig({"Url.host", "Url.query"}, <<{T("Url")}>>, Option(Text))
    \cup Sig({"Url.port"}, <<{T("Url")}>>, Option(UInt))
    \cup Sig({"Url.is_secure"}, <<{T("Url")}>>, Bool)
    \cup Sig({"Url.join_path"}, <<{T("Url")}, AnyText>>, NetErr(T("Url")))
    \cup Sig({"Url.query_param"}, <<{T("Url")}, AnyText, AnyText>>, NetErr(T("Url")))

JsonMethods ==
    Sig({"Json.as_string", "Json.kind"}, <<{JsonT}>>, Text)
    \cup Sig({"Json.len"}, <<{JsonT}>>, UInt)
    \cup Sig({"Json.is_null", "Json.is_bool", "Json.is_number", "Json.is_string",
              "Json.is_array", "Json.is_object"}, <<{JsonT}>>, Bool)
    \cup Sig({"Json.get"}, <<{JsonT}, AnyText>>, Option(JsonT))
    \cup Sig({"Json.at"}, <<{JsonT}, AnyInt>>, Option(JsonT))
    \cup Sig({"Json.as_bool"}, <<{JsonT}>>, ConvErr(Bool))
    \cup Sig({"Json.as_int"}, <<{JsonT}>>, ConvErr(SInt))
    \cup Sig({"Json.as_uint"}, <<{JsonT}>>, ConvErr(UInt))
    \cup Sig({"Json.as_f64"}, <<{JsonT}>>, ConvErr(T("Float")))
    \cup Sig({"Json.as_text"}, <<{JsonT}>>, ConvErr(Text))

TcpStreamMethods ==
    LET Stream == {T("TcpStream")} IN
    Sig({"TcpStream.read"}, <<Stream, AnyInt>>, NetErr(Bytes))
    \cup Sig({"TcpStream.read_async"}, <<Stream, AnyInt>>, Future(NetErr(Bytes)))
    \cup Sig({"TcpStream.read_async_timeout"}, <<Stream, AnyInt, {Dur}>>, Future(NetErr(Bytes)))
    \cup Sig({"TcpStream.write"}, <<Stream, ByteSeq>>, NetErr(UInt))
    \cup Sig({"TcpStream.write_async"}, <<Stream, ByteSeq>>, Future(NetErr(UInt)))
    \cup Sig({"TcpStream.write_async_timeout"}, <<Stream, ByteSeq, {Dur}>>, Future(NetErr(UInt)))
    \cup Sig({"TcpStream.close"}, <<Stream>>, Unit)
    \cup Sig({"TcpStream.shutdown_read", "TcpStream.shutdown_write"}, <<Stream>>, NetErr(Unit))

TlsStreamMethods ==
    LET Stream == {T("TlsStream")} IN
    Sig({"TlsStream.read"}, <<Stream, AnyInt>>, NetErr(Bytes))
    \cup Sig({"TlsStream.read_async"}, <<Stream, AnyInt>>, Future(NetErr(Bytes)))
    \cup Sig({"TlsStream.read_async_timeout"}, <<Stream, AnyInt, {Dur}>>, Future(NetErr(Bytes)))
    \cup Sig({"TlsStream.write"}, <<Stream, ByteSeq>>, NetErr(UInt))
    \cup Sig({"TlsStream.write_async"}, <<Stream, ByteSeq>>, Future(NetErr(UInt)))
    \cup Sig({"TlsStream.write_async_timeout"}, <<Stream, ByteSeq, {Dur}>>, Future(NetErr(UInt)))
    \cup Sig({"TlsStream.close"}, <<Stream>>, Unit)

HttpResponseMethods ==
    LET Response == {T("HttpResponse")} IN
    Sig({"HttpResponse.status", "HttpResponse.len"}, <<Response>>, UInt)
    \cup Sig({"HttpResponse.is_success", "HttpResponse.is_empty"}, <<Response>>, Bool)
    \cup Sig({"HttpResponse.body"}, <<Response>>, Bytes)
    \cup Sig({"HttpResponse.text"}, <<Response>>, HttpErr(Text))
    \cup Sig({"HttpResponse.json"}, <<Response>>, HttpErr(JsonT))
    \cup Sig({"HttpResponse.url"}, <<Response>>, Text)
    \cup Sig({"HttpResponse.header"}, <<Response, AnyText>>, Option(Text))

HttpRequestMethods ==
    LET Request == T("HttpRequest") IN
    Sig({"HttpRequest.header"}, <<{Request}, AnyText, AnyText>>, HttpErr(Request))
    \cup Sig({"HttpRequest.text"}, <<{Request}, AnyText>>, HttpErr(Request))
    \cup Sig({"HttpRequest.bytes"}, <<{Request}, ByteSeq>>, HttpErr(Request))
    \cup Sig({"HttpRequest.json"}, <<{Request}, {JsonT}>>, HttpErr(Request))
    \cup Sig({"HttpRequest.send"}, <<{Request}>>, HttpReply)
    \cup Sig({"HttpRequest.send_timeout"}, <<{Request}, {Dur}>>, HttpReply)

ListenerMethods ==
    LET Listener == {T("TcpListener")} IN
    Sig({"TcpListener.accept"}, <<Listener>>, Future(NetErr(T("TcpStream"))))
    \cup Sig({"TcpListener.accept_timeout"}, <<Listener, {Dur}>>, Future(NetErr(T("TcpStream"))))
    \cup Sig({"TcpListener.local_port"}, <<Listener>>, NetErr(UInt))
    \cup Sig({"TcpListener.close"}, <<Listener>>, Unit)

UdpMethods ==
    LET Socket == {T("UdpSocket")}
        Datagram == NetErr(T("UdpDatagram")) IN
    Sig({"UdpSocket.receive_from"}, <<Socket, AnyInt>>, Datagram)
    \cup Sig({"UdpSocket.receive_from_async"}, <<Socket, AnyInt>>, Future(Datagram))
    \cup Sig({"UdpSocket.receive_from_async_timeout"}, <<Socket, AnyInt, {Dur}>>,
             Future(Datagram))
    \cup Sig({"UdpSocket.send_to"}, <<Socket, ByteSeq, {Addr}>>, NetErr(UInt))
    \cup Sig({"UdpSocket.send_to_async"}, <<Socket, ByteSeq, {Addr}>>, Future(NetErr(UInt)))
    \cup Sig({"UdpSocket.send_to_async_timeout"}, <<Socket, ByteSeq, {Addr}, {Dur}>>,
             Future(NetErr(UInt)))
    \cup Sig({"UdpSocket.local_port"}, <<Socket>>, NetErr(UInt))
    \cup Sig({"UdpSocket.close"}, <<Socket>>, Unit)

DatagramAndClockMethods ==
    Sig({"UdpDatagram.bytes"}, <<{T("UdpDatagram")}>>, Bytes)
    \cup Sig({"UdpDatagram.source"}, <<{T("UdpDatagram")}>>, Addr)
    \cup Sig({"UdpDatagram.len"}, <<{T("UdpDatagram")}>>, UInt)
    \cup Sig({"UdpDatagram.is_empty"}, <<{T("UdpDatagram")}>>, Bool)
    \cup Sig({"IpAddress.as_string"}, <<{T("IpAddress")}>>, Text)
    \cup Sig({"IpAddress.is_ipv4", "IpAddress.is_ipv6", "IpAddress.is_loopback",
              "IpAddress.is_unspecified"}, <<{T("IpAddress")}>>, Bool)
    \cup Sig({"Instant.elapsed"}, <<{T("Instant")}>>, Dur)
    \cup Sig({"Duration.nanos", "Duration.millis", "Duration.seconds"}, <<{Dur}>>, UInt)

TextMethods ==
    Sig({"String.len"}, <<AnyText>>, UInt)
    \cup Sig({"String.capacity"}, <<{Text}>>, UInt)
    \cup Sig({"String.is_empty"}, <<AnyText>>, Bool)
    \cup Sig({"String.contains", "String.starts_with", "String.ends_with"},
             <<AnyText, AnyText>>, Bool)
    \cup Sig({"String.push"}, <<{Text}, {T("Char")}>>, Unit)
    \cup Sig({"String.push_str", "String.append", "String.add"}, <<{Text}, {Text}>>, Unit)
    \cup Sig({"String.clear"}, <<{Text}>>, Unit)

Printable == {Text, Str, SInt, Bool, List(Elem), JsonT, PathT}

PrintAndWrap ==
    Sig({"print"}, <<Printable>>, Unit)
    \cup Sig({"Some"}, <<{Elem}>>, Option(Elem))
    \cup Sig({"Ok"}, <<{Elem}>>, Result(Elem, Infer))
    \cup Sig({"Err"}, <<{Elem}>>, Result(Infer, Elem))

Checked ==
    AsyncCalls \cup NamedConstructors \cup JsonConstructors \cup FromJson
    \cup NetworkConstructors \cup HttpCalls \cup ServerConstructors \cup DeviceCalls
    \cup FileCalls \cup ClockAndProcessCalls \cup SecretCalls \cup SealCalls
    \cup SignatureCalls \cup PasswordCalls \cup ForeignConstructors \cup Registrations
    \cup ListConstructors \cup SharedConstructors \cup MapAndSetConstructors
    \cup NumericCalls \cup LengthMethods \cup ListMethods \cup MapMethods \cup SetMethods
    \cup ConcurrencyMethods \cup ForeignMethods \cup MemoryMethods \cup PointerMethods
    \cup PathAndOutputMethods \cup CommandMethods \cup ChildMethods \cup DatabaseMethods
    \cup UrlMethods \cup JsonMethods \cup TcpStreamMethods \cup TlsStreamMethods
    \cup HttpResponseMethods \cup HttpRequestMethods \cup ListenerMethods \cup UdpMethods
    \cup DatagramAndClockMethods \cup TextMethods \cup PrintAndWrap
=============================================================================
