-------------------------- MODULE EvaluatedBuiltins --------------------------
(***************************************************************************)
(* What the interpreter (interpreter.rs, evaluate, the Call arm) does with *)
(* every built-in operation: the types whose values each position's        *)
(* pattern accepts (any other value ends the run in an unreachable! or an  *)
(* internal error), the positions it consumes rather than evaluates, the   *)
(* value it yields and the budget it charges first.  The receiver of a     *)
(* method is its first position.  Values are written with the types'       *)
(* terms; a Result is written with its Ok payload only, since every error  *)
(* is rendered to a String.                                                *)
(***************************************************************************)
EXTENDS BuiltinTypes, Naturals

Ok(t) == <<"Result", t>>

Ev(ops, takes, consumes, yields) ==
    {[op |-> o, takes |-> takes, consumes |-> consumes, yields |-> yields,
      charges |-> "none"] : o \in ops}

Charging(what, rows) == {[r EXCEPT !.charges = what] : r \in rows}

\* The values each kind of operand is matched against: a str literal is a
\* String value, a path may be text, index_value takes any integer.
Texts == {Text, Str}
Ints == {SInt, UInt, Byte, T("u16"), T("u32")}
Paths == {PathT} \cup Texts
Octets == {Bytes, Slice(Byte)}
Anything == {Elem}

SharedConstructorsEvaluated ==
    Ev({"AtomicInt.new"}, <<{SInt}>>, {}, T("AtomicInt"))
    \cup Ev({"Mutex.new"}, <<Anything>>, {1}, <<"Mutex", Elem>>)
    \cup Charging("handle", Ev({"Channel.bounded"}, <<Ints>>, {}, Ok(<<"Channel", Infer>>)))

SocketConstructorsEvaluated ==
    Charging("handle",
        Ev({"TcpListener.bind"}, <<{Addr}>>, {1}, Ok(T("TcpListener")))
        \cup Ev({"UdpSocket.bind"}, <<{Addr}>>, {1}, Ok(T("UdpSocket"))))
    \cup Ev({"String"}, <<>>, {}, Text)
    \cup Ev({"SocketAddress"}, <<Texts \cup {T("IpAddress")}, Ints>>, {}, Addr)
    \cup Ev({"IpAddress.parse"}, <<Texts>>, {}, Ok(T("IpAddress")))
    \cup Ev({"Dns.resolve"}, <<Texts>>, {}, Ok(List(T("IpAddress"))))
    \cup Ev({"Tls.connect"}, <<{T("TcpStream")}, Texts>>, {1}, Future(Ok(T("TlsStream"))))
    \cup Ev({"Tls.connect_timeout"}, <<{T("TcpStream")}, Texts, {Dur}>>, {1},
            Future(Ok(T("TlsStream"))))

HttpEvaluated ==
    LET url == Texts \cup {T("Url")}
        body == Texts \cup Octets \cup {JsonT}
        reply == Future(Ok(T("HttpResponse"))) IN
    Ev({"Http.request"}, <<Texts, url>>, {}, Ok(T("HttpRequest")))
    \cup Ev({"Http.get", "Http.delete"}, <<url>>, {}, reply)
    \cup Ev({"Http.get_timeout", "Http.delete_timeout"}, <<url, {Dur}>>, {}, reply)
    \cup Ev({"Http.post", "Http.put", "Http.patch", "Http.post_json"}, <<url, body>>, {}, reply)
    \cup Ev({"Http.post_timeout", "Http.put_timeout", "Http.patch_timeout",
             "Http.post_json_timeout"}, <<url, body, {Dur}>>, {}, reply)

NamedEvaluated ==
    Ev({"Path"}, <<Paths>>, {}, PathT)
    \cup Ev({"Url"}, <<Texts>>, {}, Ok(T("Url")))
    \cup Ev({"Json"}, <<Texts>>, {}, Ok(JsonT))

JsonConstructorsEvaluated ==
    Ev({"Json.null"}, <<>>, {}, JsonT)
    \cup Ev({"Json.bool"}, <<{Bool}>>, {}, JsonT)
    \cup Ev({"Json.int"}, <<{SInt}>>, {}, JsonT)
    \cup Ev({"Json.uint"}, <<{UInt, Byte, T("u16"), T("u32")}>>, {}, JsonT)
    \cup Ev({"Json.float"}, <<{T("Float")}>>, {}, Ok(JsonT))
    \cup Ev({"Json.string"}, <<Texts>>, {}, Ok(JsonT))
    \cup Ev({"Json.array"}, <<{List(JsonT)}>>, {}, Ok(JsonT))
    \cup Ev({"Json.object"}, <<{<<"Map", Text, JsonT>>}>>, {}, Ok(JsonT))
    \cup Ev({"Json.from"}, <<{T("Record")} \cup Ints \cup Texts>>, {}, Ok(JsonT))

FromJsonEvaluated == Ev({"Record.from_json"}, <<{JsonT}>>, {}, Ok(T("Record")))

MemoryConstructorsEvaluated ==
    Ev({"String.new"}, <<>>, {}, Text)
    \cup Ev({"String.with_capacity"}, <<Ints>>, {}, Text)
    \cup Ev({"CString.new"}, <<Texts \cup {T("CStr"), T("CString")}>>, {}, Ok(T("CString")))
    \cup Charging("memory", Ev({"Memory.allocate"}, <<Ints, Ints>>, {}, Ok(T("Memory"))))

CollectionConstructorsEvaluated ==
    Ev({"List.new"}, <<>>, {}, List(Infer))
    \cup Ev({"List.of"}, <<Anything, Anything>>, {1, 2}, List(Elem))
    \cup Ev({"List.with_capacity"}, <<Ints>>, {}, List(Infer))
    \cup Ev({"Map.new"}, <<>>, {}, <<"Map", Infer, Infer>>)
    \cup Ev({"Map.of"}, <<Anything, Anything>>, {1, 2}, MapT)
    \cup Ev({"Map.with_capacity"}, <<Ints>>, {}, <<"Map", Infer, Infer>>)
    \cup Ev({"Set.new"}, <<>>, {}, <<"Set", Infer>>)
    \cup Ev({"Set.of"}, <<Anything, Anything>>, {1, 2}, SetT)
    \cup Ev({"Set.with_capacity"}, <<Ints>>, {}, <<"Set", Infer>>)

AsyncEvaluated ==
    Ev({"Async.yield"}, <<>>, {}, Future(Unit))
    \cup Charging("task", Ev({"Async.spawn"}, <<{Future(Unit)}>>, {1}, <<"Task", Unit>>))
    \cup Ev({"Async.sleep"}, <<{Dur}>>, {}, Future(Unit))
    \cup Ev({"Async.connect"}, <<{Addr}>>, {1}, Future(Ok(T("TcpStream"))))
    \cup Ev({"Async.connect_timeout"}, <<{Addr}, {Dur}>>, {1}, Future(Ok(T("TcpStream"))))
    \cup Ev({"Async.resolve"}, <<Texts>>, {}, Future(Ok(List(T("IpAddress")))))
    \cup Ev({"Async.resolve_timeout"}, <<Texts, {Dur}>>, {}, Future(Ok(List(T("IpAddress")))))
    \cup Ev({"Async.read_text"}, <<{PathT}>>, {1}, Future(Ok(Text)))
    \cup Ev({"Async.read_bytes"}, <<{PathT}>>, {1}, Future(Ok(Bytes)))
    \cup Ev({"Async.write_text"}, <<{PathT}, Texts>>, {1, 2}, Future(Ok(Unit)))
    \cup Ev({"Async.write_bytes"}, <<{PathT}, {Bytes}>>, {1, 2}, Future(Ok(Unit)))

RandomEvaluated ==
    Ev({"Crypto.random_bytes"}, <<Ints>>, {}, Ok(Bytes))
    \cup Ev({"Crypto.random_secret"}, <<Ints>>, {}, Ok(Secret))
    \cup Ev({"Crypto.import_secret"}, <<{Bytes}>>, {1}, Ok(Secret))

DigestEvaluated ==
    Ev({"Crypto.sha256"}, <<{Bytes}>>, {}, Ok(Bytes))
    \cup Ev({"Crypto.hmac_sha256"}, <<{Secret}, {Bytes}>>, {}, Ok(Bytes))
    \cup Ev({"Crypto.hmac_sha256_verify"}, <<{Secret}, {Bytes}, {Bytes}>>, {}, Ok(Bool))
    \cup Ev({"Crypto.hkdf_sha256"}, <<{Bytes}, {Secret}, {Bytes}, Ints>>, {}, Ok(Secret))

SealEvaluated ==
    Ev({"Crypto.aes256_gcm_siv_seal"}, <<{Secret}, {Secret}, {Bytes}>>, {},
       Ok(T("AeadEnvelope")))
    \cup Ev({"Crypto.aes256_gcm_siv_open"}, <<{Secret}, {T("AeadEnvelope")}, {Bytes}>>, {},
            Ok(Secret))
    \cup Ev({"Crypto.encode_aead_envelope"}, <<{T("AeadEnvelope")}>>, {}, Ok(Bytes))
    \cup Ev({"Crypto.decode_aead_envelope"}, <<{Bytes}>>, {}, Ok(T("AeadEnvelope")))

SignEvaluated ==
    Ev({"Crypto.ed25519_generate"}, <<>>, {}, Ok(T("Ed25519SigningKey")))
    \cup Ev({"Crypto.ed25519_public_key"}, <<{T("Ed25519SigningKey")}>>, {}, Ok(Bytes))
    \cup Ev({"Crypto.ed25519_sign"}, <<{T("Ed25519SigningKey")}, {Bytes}>>, {}, Ok(Bytes))
    \cup Ev({"Crypto.ed25519_verify"}, <<{Bytes}, {Bytes}, {Bytes}>>, {}, Ok(Bool))
    \cup Ev({"Crypto.ed25519_key_id"}, <<{Bytes}>>, {}, Ok(Bytes))

KeyedEvaluated ==
    Ev({"Crypto.ed25519_verify_keyed"}, <<{Bytes}, {Bytes}, {Bytes}, {Bytes}>>, {}, Ok(Bool))
    \cup Ev({"Crypto.ed25519_verify_lifecycle"},
            <<{Bytes}, {Bytes}, {Bytes}, {Bytes}, Ints, Ints, {Bool}, Ints>>, {}, Ok(Bool))
    \cup Ev({"Crypto.encode_ed25519_public_key", "Crypto.decode_ed25519_public_key",
             "Crypto.encode_ed25519_signature", "Crypto.decode_ed25519_signature"},
            <<{Bytes}>>, {}, Ok(Bytes))

PasswordEvaluated ==
    Ev({"Crypto.argon2id_hash_password"}, <<{Secret}>>, {}, Ok(Text))
    \cup Ev({"Crypto.argon2id_verify_password"}, <<{Secret}, Texts>>, {}, Ok(Bool))

SystemEvaluated ==
    Ev({"Environment.arguments"}, <<>>, {}, List(Text))
    \cup Ev({"Environment.get"}, <<Texts>>, {}, Option(Text))
    \cup Ev({"Process.command"}, <<{PathT}>>, {1}, T("ProcessCommand"))
    \cup Charging("process",
             Ev({"Process.run"}, <<{PathT}, {List(Text)}>>, {}, Ok(T("ProcessOutput"))))
    \cup Charging("handle",
             Ev({"Database.memory"}, <<>>, {}, Ok(T("Database")))
             \cup Ev({"Database.open"}, <<{PathT}>>, {}, Ok(T("Database"))))

ClockEvaluated ==
    Ev({"Path.new"}, <<Paths>>, {}, PathT)
    \cup Ev({"Time.now"}, <<>>, {}, T("Instant"))
    \cup Ev({"Time.unix_seconds", "Time.ticks"}, <<>>, {}, UInt)
    \cup Ev({"Time.sleep"}, <<{Dur}>>, {}, Unit)
    \cup Ev({"Duration.from_nanos", "Duration.from_millis", "Duration.from_seconds"},
            <<Ints>>, {}, Dur)

FileEvaluated ==
    Charging("handle",
        Ev({"File.read_text"}, <<Paths>>, {}, Ok(Text))
        \cup Ev({"File.read_bytes"}, <<Paths>>, {}, Ok(Bytes))
        \cup Ev({"File.size", "File.modified_seconds"}, <<Paths>>, {}, Ok(UInt))
        \cup Ev({"File.write_text", "File.append_text"}, <<Paths, Texts>>, {}, Ok(Unit))
        \cup Ev({"File.write_bytes", "File.append_bytes"}, <<Paths, Octets>>, {}, Ok(Unit))
        \cup Ev({"File.exists"}, <<Paths>>, {}, Bool)
        \cup Ev({"File.remove"}, <<Paths>>, {}, Ok(Unit))
        \cup Ev({"File.copy", "File.move"}, <<Paths, Paths>>, {}, Ok(Unit)))

DirectoryEvaluated ==
    Charging("handle",
        Ev({"Directory.exists"}, <<Paths>>, {}, Bool)
        \cup Ev({"Directory.create", "Directory.create_all", "Directory.remove"},
                <<Paths>>, {}, Ok(Unit))
        \cup Ev({"Directory.read"}, <<Paths>>, {}, Ok(List(PathT))))

ConversionEvaluated == Ev({"u8"}, <<Ints>>, {}, Byte)

IntegerEvaluated ==
    Ev({"u8.try_from"}, <<Ints>>, {}, Ok(Byte))
    \cup Ev({"u8.wrapping_add", "u8.wrapping_sub", "u8.wrapping_mul", "u8.saturating_add",
             "u8.saturating_sub", "u8.saturating_mul"}, <<{Byte}, {Byte}>>, {}, Byte)

SharedMethodsEvaluated ==
    LET mutex == {<<"Mutex", Elem>>}
        channel == {<<"Channel", Elem>>}
        atomic == {T("AtomicInt")} IN
    Ev({"Mutex.lock"}, <<mutex>>, {}, <<"MutexGuard", Elem>>)
    \cup Ev({"Mutex.share"}, <<mutex>>, {}, <<"Mutex", Elem>>)
    \cup Ev({"Channel.share"}, <<channel>>, {}, <<"Channel", Elem>>)
    \cup Ev({"AtomicInt.share"}, <<atomic>>, {}, T("AtomicInt"))
    \cup Ev({"AtomicInt.load", "AtomicInt.load_relaxed", "AtomicInt.load_acquire",
             "AtomicInt.load_seq_cst"}, <<atomic>>, {}, SInt)
    \cup Ev({"AtomicInt.store", "AtomicInt.store_relaxed", "AtomicInt.store_release",
             "AtomicInt.store_seq_cst"}, <<atomic, {SInt}>>, {}, Unit)
    \cup Ev({"AtomicInt.add", "AtomicInt.add_relaxed", "AtomicInt.add_acquire",
             "AtomicInt.add_release", "AtomicInt.add_acq_rel", "AtomicInt.add_seq_cst",
             "AtomicInt.fetch_add", "AtomicInt.fetch_add_relaxed",
             "AtomicInt.fetch_add_acquire", "AtomicInt.fetch_add_release",
             "AtomicInt.fetch_add_acq_rel", "AtomicInt.fetch_add_seq_cst"},
            <<atomic, {SInt}>>, {}, SInt)
    \cup Ev({"Channel.send"}, <<channel, Anything>>, {2}, Bool)
    \cup Ev({"Channel.receive"}, <<channel>>, {}, Option(Elem))
    \cup Ev({"Channel.close"}, <<channel>>, {}, Unit)
    \cup Ev({"Channel.len", "Channel.capacity"}, <<channel>>, {}, UInt)
    \cup Ev({"Channel.is_closed"}, <<channel>>, {}, Bool)

SecretMethodsEvaluated ==
    Ev({"SecretBytes.len"}, <<{Secret}>>, {}, UInt)
    \cup Ev({"SecretBytes.is_empty"}, <<{Secret}>>, {}, Bool)
    \cup Ev({"SecretBytes.constant_time_equals"}, <<{Secret}, {Secret}>>, {}, Bool)

\* A pointer is a reference to an element of the allocation; only one made by
\* as_mut_ptr is writable.
PointerEvaluated ==
    LET const == <<"MemoryPointer", Byte>>
        mut == <<"MutMemoryPointer", Byte>> IN
    Ev({"MemoryPointer.offset"}, <<{const}, {SInt}>>, {}, const)
    \cup Ev({"MutMemoryPointer.offset"}, <<{mut}, {SInt}>>, {}, mut)
    \cup Ev({"MemoryPointer.read"}, <<{const, mut}>>, {}, Byte)
    \cup Ev({"MemoryPointer.write"}, <<{mut}, {Byte}>>, {}, Unit)

TaskMethodsEvaluated ==
    Ev({"Thread.join"}, <<{<<"Thread", Elem>>}>>, {1}, Elem)
    \cup Ev({"Task.cancel"}, <<{<<"Task", Unit>>}>>, {1}, Unit)
    \cup Ev({"Task.is_finished"}, <<{<<"Task", Unit>>}>>, {}, Bool)

ListenerEvaluated ==
    LET listener == {T("TcpListener")} IN
    Ev({"TcpListener.accept"}, <<listener>>, {}, Future(Ok(T("TcpStream"))))
    \cup Ev({"TcpListener.accept_timeout"}, <<listener, {Dur}>>, {}, Future(Ok(T("TcpStream"))))
    \cup Ev({"TcpListener.local_port"}, <<listener>>, {}, Ok(UInt))
    \cup Ev({"TcpListener.close"}, <<listener>>, {}, Unit)

TcpStreamEvaluated ==
    LET stream == {T("TcpStream")} IN
    Ev({"TcpStream.read"}, <<stream, Ints>>, {}, Ok(Bytes))
    \cup Ev({"TcpStream.read_async"}, <<stream, Ints>>, {}, Future(Ok(Bytes)))
    \cup Ev({"TcpStream.read_async_timeout"}, <<stream, Ints, {Dur}>>, {}, Future(Ok(Bytes)))
    \cup Ev({"TcpStream.write"}, <<stream, Octets>>, {}, Ok(UInt))
    \cup Ev({"TcpStream.write_async"}, <<stream, Octets>>, {}, Future(Ok(UInt)))
    \cup Ev({"TcpStream.write_async_timeout"}, <<stream, Octets, {Dur}>>, {}, Future(Ok(UInt)))
    \cup Ev({"TcpStream.close"}, <<stream>>, {}, Unit)
    \cup Ev({"TcpStream.shutdown_read", "TcpStream.shutdown_write"}, <<stream>>, {}, Ok(Unit))

TlsStreamEvaluated ==
    LET stream == {T("TlsStream")} IN
    Ev({"TlsStream.read"}, <<stream, Ints>>, {}, Ok(Bytes))
    \cup Ev({"TlsStream.read_async"}, <<stream, Ints>>, {}, Future(Ok(Bytes)))
    \cup Ev({"TlsStream.read_async_timeout"}, <<stream, Ints, {Dur}>>, {}, Future(Ok(Bytes)))
    \cup Ev({"TlsStream.write"}, <<stream, Octets>>, {}, Ok(UInt))
    \cup Ev({"TlsStream.write_async"}, <<stream, Octets>>, {}, Future(Ok(UInt)))
    \cup Ev({"TlsStream.write_async_timeout"}, <<stream, Octets, {Dur}>>, {}, Future(Ok(UInt)))
    \cup Ev({"TlsStream.close"}, <<stream>>, {}, Unit)

HttpResponseEvaluated ==
    LET response == {T("HttpResponse")} IN
    Ev({"HttpResponse.status", "HttpResponse.len"}, <<response>>, {}, UInt)
    \cup Ev({"HttpResponse.is_success", "HttpResponse.is_empty"}, <<response>>, {}, Bool)
    \cup Ev({"HttpResponse.body"}, <<response>>, {}, Bytes)
    \cup Ev({"HttpResponse.text"}, <<response>>, {}, Ok(Text))
    \cup Ev({"HttpResponse.json"}, <<response>>, {}, Ok(JsonT))
    \cup Ev({"HttpResponse.header"}, <<response, Texts>>, {}, Option(Text))
    \cup Ev({"HttpResponse.url"}, <<response>>, {}, Text)

HttpRequestEvaluated ==
    LET request == {T("HttpRequest")}
        body == Texts \cup Octets \cup {JsonT}
        reply == Future(Ok(T("HttpResponse"))) IN
    Ev({"HttpRequest.header"}, <<request, Texts, Texts>>, {1}, Ok(T("HttpRequest")))
    \cup Ev({"HttpRequest.text", "HttpRequest.bytes", "HttpRequest.json"}, <<request, body>>,
            {1}, Ok(T("HttpRequest")))
    \cup Ev({"HttpRequest.send"}, <<request>>, {1}, reply)
    \cup Ev({"HttpRequest.send_timeout"}, <<request, {Dur}>>, {1}, reply)

UdpEvaluated ==
    LET socket == {T("UdpSocket")}
        datagram == Ok(T("UdpDatagram")) IN
    Ev({"UdpSocket.receive_from"}, <<socket, Ints>>, {}, datagram)
    \cup Ev({"UdpSocket.receive_from_async"}, <<socket, Ints>>, {}, Future(datagram))
    \cup Ev({"UdpSocket.receive_from_async_timeout"}, <<socket, Ints, {Dur}>>, {},
            Future(datagram))
    \cup Ev({"UdpSocket.send_to"}, <<socket, Octets, {Addr}>>, {}, Ok(UInt))
    \cup Ev({"UdpSocket.send_to_async"}, <<socket, Octets, {Addr}>>, {}, Future(Ok(UInt)))
    \cup Ev({"UdpSocket.send_to_async_timeout"}, <<socket, Octets, {Addr}, {Dur}>>, {},
            Future(Ok(UInt)))
    \cup Ev({"UdpSocket.local_port"}, <<socket>>, {}, Ok(UInt))
    \cup Ev({"UdpSocket.close"}, <<socket>>, {}, Unit)

AddressesEvaluated ==
    LET datagram == {T("UdpDatagram")}
        address == {T("IpAddress")} IN
    Ev({"UdpDatagram.bytes"}, <<datagram>>, {}, Bytes)
    \cup Ev({"UdpDatagram.source"}, <<datagram>>, {}, Addr)
    \cup Ev({"UdpDatagram.len"}, <<datagram>>, {}, UInt)
    \cup Ev({"UdpDatagram.is_empty"}, <<datagram>>, {}, Bool)
    \cup Ev({"IpAddress.as_string"}, <<address>>, {}, Text)
    \cup Ev({"IpAddress.is_ipv4", "IpAddress.is_ipv6", "IpAddress.is_loopback",
             "IpAddress.is_unspecified"}, <<address>>, {}, Bool)

PathEvaluated ==
    Ev({"Path.join"}, <<{PathT}, Paths>>, {}, PathT)
    \cup Ev({"Path.len"}, <<{PathT}>>, {}, UInt)
    \cup Ev({"Path.is_empty", "Path.is_absolute"}, <<{PathT}>>, {}, Bool)
    \cup Ev({"Path.as_string"}, <<{PathT}>>, {}, Text)
    \cup Ev({"Path.name", "Path.extension"}, <<{PathT}>>, {}, Option(Text))
    \cup Ev({"Path.parent"}, <<{PathT}>>, {}, Option(PathT))

DatabaseEvaluated ==
    LET database == {T("Database")} IN
    Ev({"Database.execute"}, <<database, Texts, {List(JsonT)}>>, {}, Ok(UInt))
    \cup Ev({"Database.query"}, <<database, Texts, {List(JsonT)}>>, {}, Ok(List(JsonT)))
    \cup Ev({"Database.begin", "Database.commit", "Database.rollback"}, <<database>>, {},
            Ok(Unit))
    \cup Ev({"Database.close"}, <<database>>, {1}, Ok(Unit))
    \cup Ev({"Database.changes"}, <<database>>, {}, UInt)
    \cup Ev({"Database.last_insert_id"}, <<database>>, {}, SInt)

OutputEvaluated ==
    LET output == {T("ProcessOutput")} IN
    Ev({"ProcessOutput.status"}, <<output>>, {}, SInt)
    \cup Ev({"ProcessOutput.success"}, <<output>>, {}, Bool)
    \cup Ev({"ProcessOutput.stdout", "ProcessOutput.stderr"}, <<output>>, {}, Bytes)
    \cup Ev({"ProcessOutput.stdout_text", "ProcessOutput.stderr_text"}, <<output>>, {}, Ok(Text))

CommandEvaluated ==
    LET command == {T("ProcessCommand")} IN
    Ev({"ProcessCommand.arg", "ProcessCommand.input_text"}, <<command, Texts>>, {1, 2},
       T("ProcessCommand"))
    \cup Ev({"ProcessCommand.arguments"}, <<command, {List(Text)}>>, {1, 2},
            T("ProcessCommand"))
    \cup Ev({"ProcessCommand.directory"}, <<command, {PathT}>>, {1, 2}, T("ProcessCommand"))
    \cup Ev({"ProcessCommand.environment"}, <<command, Texts, Texts>>, {1, 2, 3},
            T("ProcessCommand"))
    \cup Ev({"ProcessCommand.clear_environment"}, <<command>>, {1}, T("ProcessCommand"))
    \cup Ev({"ProcessCommand.input"}, <<command, {Bytes}>>, {1, 2}, T("ProcessCommand"))
    \cup Ev({"ProcessCommand.timeout"}, <<command, {Dur}>>, {1}, T("ProcessCommand"))
    \cup Charging("process",
             Ev({"ProcessCommand.run"}, <<command>>, {1}, Ok(T("ProcessOutput")))
             \cup Ev({"ProcessCommand.start"}, <<command>>, {1}, Ok(T("ChildProcess"))))

ChildEvaluated ==
    LET child == {T("ChildProcess")} IN
    Ev({"ChildProcess.write"}, <<child, Texts \cup Octets \cup {JsonT}>>, {}, Ok(Unit))
    \cup Ev({"ChildProcess.write_text"}, <<child, Texts>>, {}, Ok(Unit))
    \cup Ev({"ChildProcess.close_input", "ChildProcess.kill"}, <<child>>, {}, Ok(Unit))
    \cup Ev({"ChildProcess.read_stdout", "ChildProcess.read_stderr"}, <<child, Ints>>, {},
            Ok(Bytes))
    \cup Ev({"ChildProcess.try_wait"}, <<child>>, {}, Ok(Option(SInt)))
    \cup Ev({"ChildProcess.wait"}, <<child>>, {1}, Ok(T("ProcessOutput")))

UrlEvaluated ==
    LET url == {T("Url")} IN
    Ev({"Url.as_string", "Url.scheme", "Url.path"}, <<url>>, {}, Text)
    \cup Ev({"Url.host", "Url.query"}, <<url>>, {}, Option(Text))
    \cup Ev({"Url.port"}, <<url>>, {}, Option(UInt))
    \cup Ev({"Url.is_secure"}, <<url>>, {}, Bool)
    \cup Ev({"Url.join_path"}, <<url, Texts>>, {}, Ok(T("Url")))
    \cup Ev({"Url.query_param"}, <<url, Texts, Texts>>, {}, Ok(T("Url")))

JsonEvaluated ==
    Ev({"Json.as_string", "Json.kind"}, <<{JsonT}>>, {}, Text)
    \cup Ev({"Json.len"}, <<{JsonT}>>, {}, UInt)
    \cup Ev({"Json.is_null", "Json.is_bool", "Json.is_number", "Json.is_string",
             "Json.is_array", "Json.is_object"}, <<{JsonT}>>, {}, Bool)
    \cup Ev({"Json.get"}, <<{JsonT}, Texts>>, {}, Option(JsonT))
    \cup Ev({"Json.at"}, <<{JsonT}, Ints>>, {}, Option(JsonT))
    \cup Ev({"Json.as_bool"}, <<{JsonT}>>, {}, Ok(Bool))
    \cup Ev({"Json.as_int"}, <<{JsonT}>>, {}, Ok(SInt))
    \cup Ev({"Json.as_uint"}, <<{JsonT}>>, {}, Ok(UInt))
    \cup Ev({"Json.as_f64"}, <<{JsonT}>>, {}, Ok(T("Float")))
    \cup Ev({"Json.as_text"}, <<{JsonT}>>, {}, Ok(Text))

ClockMethodsEvaluated ==
    Ev({"Instant.elapsed"}, <<{T("Instant")}>>, {}, Dur)
    \cup Ev({"Duration.nanos", "Duration.millis", "Duration.seconds"}, <<{Dur}>>, {}, UInt)

\* set consumes the key as well as the value.
MapEvaluated ==
    Ev({"Map.keys"}, <<{MapT}>>, {}, Slice(Text))
    \cup Ev({"Map.values"}, <<{MapT}>>, {}, Slice(Elem))
    \cup Ev({"Map.len", "Map.count", "Map.capacity"}, <<{MapT}>>, {}, UInt)
    \cup Ev({"Map.is_empty", "Map.empty"}, <<{MapT}>>, {}, Bool)
    \cup Ev({"Map.has", "Map.contains_key"}, <<{MapT}, Anything>>, {}, Bool)
    \cup Ev({"Map.get"}, <<{MapT}, Anything>>, {}, Option(Ref(Elem)))
    \cup Ev({"Map.get_mut"}, <<{MapT}, Anything>>, {}, Option(RefMut(Elem)))
    \cup Ev({"Map.set", "Map.insert"}, <<{MapT}, Anything, Anything>>, {2, 3}, Option(Elem))
    \cup Ev({"Map.remove"}, <<{MapT}, Anything>>, {}, Option(Elem))
    \cup Ev({"Map.clear"}, <<{MapT}>>, {}, Unit)

SetEvaluated ==
    Ev({"Set.iter"}, <<{SetT}>>, {}, Slice(Elem))
    \cup Ev({"Set.len", "Set.count", "Set.capacity"}, <<{SetT}>>, {}, UInt)
    \cup Ev({"Set.is_empty", "Set.empty"}, <<{SetT}>>, {}, Bool)
    \cup Ev({"Set.has", "Set.contains", "Set.remove"}, <<{SetT}, Anything>>, {}, Bool)
    \cup Ev({"Set.add", "Set.insert"}, <<{SetT}, Anything>>, {2}, Bool)
    \cup Ev({"Set.clear"}, <<{SetT}>>, {}, Unit)

ListEvaluated ==
    LET list == {List(Elem)} IN
    Ev({"List.iter"}, <<list>>, {}, Slice(Elem))
    \cup Ev({"List.len", "List.count", "List.capacity"}, <<list>>, {}, UInt)
    \cup Ev({"List.is_empty", "List.empty"}, <<list>>, {}, Bool)
    \cup Ev({"List.push", "List.add"}, <<list, Anything>>, {2}, Unit)
    \cup Ev({"List.pop"}, <<list>>, {}, Option(Elem))
    \cup Ev({"List.get"}, <<list, Ints>>, {}, Option(Ref(Elem)))
    \cup Ev({"List.get_mut"}, <<list, Ints>>, {}, Option(RefMut(Elem)))
    \cup Ev({"List.insert"}, <<list, Ints, Anything>>, {3}, Unit)
    \cup Ev({"List.remove"}, <<list, Ints>>, {}, Elem)
    \cup Ev({"List.clear"}, <<list>>, {}, Unit)

\* Only these three spellings: count and empty have no arm here.
ArrayEvaluated ==
    LET array == {<<"Array", Elem>>}
        slice == {Slice(Elem)} IN
    Ev({"Array.len"}, <<array>>, {}, UInt)
    \cup Ev({"Slice.len"}, <<slice>>, {}, UInt)
    \cup Ev({"Array.is_empty"}, <<array>>, {}, Bool)
    \cup Ev({"Slice.is_empty"}, <<slice>>, {}, Bool)
    \cup Ev({"Array.iter"}, <<array>>, {}, Slice(Elem))
    \cup Ev({"Slice.iter"}, <<slice>>, {}, Slice(Elem))

MemoryEvaluated ==
    LET memory == {T("Memory")} IN
    Ev({"Memory.as_ptr"}, <<memory>>, {}, <<"MemoryPointer", Byte>>)
    \cup Ev({"Memory.as_mut_ptr"}, <<memory>>, {}, <<"MutMemoryPointer", Byte>>)
    \cup Ev({"Memory.len", "Memory.alignment"}, <<memory>>, {}, UInt)
    \cup Ev({"Memory.is_empty"}, <<memory>>, {}, Bool)
    \cup Ev({"Memory.read"}, <<memory, Ints>>, {}, Byte)
    \cup Ev({"Memory.write"}, <<memory, Ints, {Byte}>>, {}, Unit)
    \cup Ev({"Memory.fill"}, <<memory, {Byte}>>, {}, Unit)
    \cup Ev({"Memory.copy_from"}, <<memory, Ints, memory, Ints, Ints>>, {}, Unit)

CStringEvaluated ==
    LET text == {T("CString"), T("CStr")} IN
    Ev({"CString.len"}, <<text>>, {}, UInt)
    \cup Ev({"CString.is_empty"}, <<text>>, {}, Bool)
    \cup Ev({"CString.to_string"}, <<text>>, {}, Text)
    \cup Ev({"CString.as_c_str"}, <<{T("CString")}>>, {}, T("CStr"))

TextEvaluated ==
    Ev({"String.len", "String.capacity"}, <<Texts>>, {}, UInt)
    \cup Ev({"String.is_empty"}, <<Texts>>, {}, Bool)
    \cup Ev({"String.contains", "String.starts_with", "String.ends_with"}, <<Texts, Texts>>,
            {}, Bool)
    \cup Ev({"String.push"}, <<Texts, {T("Char")}>>, {}, Unit)
    \cup Ev({"String.push_str", "String.append", "String.add"}, <<Texts, Texts>>, {}, Unit)
    \cup Ev({"String.clear"}, <<Texts>>, {}, Unit)

PrintEvaluated ==
    Charging("output",
        Ev({"print"}, <<{Text, Str, SInt, Bool, List(Elem), JsonT, PathT}>>, {}, Unit))
    \cup Ev({"Some"}, <<Anything>>, {1}, Option(Elem))
    \cup Ev({"Ok"}, <<Anything>>, {1}, Ok(Elem))
    \cup Ev({"Err"}, <<Anything>>, {1}, Ok(Infer))

Evaluated ==
    SharedConstructorsEvaluated \cup SocketConstructorsEvaluated \cup HttpEvaluated
    \cup NamedEvaluated \cup JsonConstructorsEvaluated \cup FromJsonEvaluated
    \cup MemoryConstructorsEvaluated \cup CollectionConstructorsEvaluated
    \cup AsyncEvaluated \cup RandomEvaluated \cup DigestEvaluated \cup SealEvaluated
    \cup SignEvaluated \cup KeyedEvaluated \cup PasswordEvaluated \cup SystemEvaluated
    \cup ClockEvaluated \cup FileEvaluated \cup DirectoryEvaluated \cup ConversionEvaluated
    \cup IntegerEvaluated \cup SharedMethodsEvaluated \cup SecretMethodsEvaluated
    \cup PointerEvaluated \cup TaskMethodsEvaluated \cup ListenerEvaluated
    \cup TcpStreamEvaluated \cup TlsStreamEvaluated \cup HttpResponseEvaluated
    \cup HttpRequestEvaluated \cup UdpEvaluated \cup AddressesEvaluated \cup PathEvaluated
    \cup DatabaseEvaluated \cup OutputEvaluated \cup CommandEvaluated \cup ChildEvaluated
    \cup UrlEvaluated \cup JsonEvaluated \cup ClockMethodsEvaluated \cup MapEvaluated
    \cup SetEvaluated \cup ListEvaluated \cup ArrayEvaluated \cup MemoryEvaluated
    \cup CStringEvaluated \cup TextEvaluated \cup PrintEvaluated

\* value_is_copy, by the type of the value: a str is a String value, so it is not.
RECURSIVE InterpreterCopies(_)
InterpreterCopies(t) ==
    \/ Head(t) \in {"Unit", "Bool", "Char", "Int", "UInt", "u8", "u16", "u32", "Float",
                   "Instant", "Duration", "IpAddress", "Reference", "MutReference",
                   "MemoryPointer", "MutMemoryPointer", "RawPointer", "CFunction", "Slice",
                   "CStr", "Function"}
    \/ Head(t) \in {"Option", "Result", "Array"} /\ \A i \in 2..Len(t) : InterpreterCopies(t[i])
=============================================================================
