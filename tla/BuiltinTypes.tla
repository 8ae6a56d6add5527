---------------------------- MODULE BuiltinTypes ----------------------------
(***************************************************************************)
(* The types the built-in operations are written with, as terms: a tuple   *)
(* of the constructor's name and its arguments.  Type variables of the     *)
(* collections are instantiated with String, an owned (non-Copy) type, so  *)
(* that moving an element and copying it are told apart.                   *)
(***************************************************************************)
EXTENDS Sequences, FiniteSets

T(name) == <<name>>
List(t) == <<"List", t>>
Slice(t) == <<"Slice", t>>
Option(t) == <<"Option", t>>
Result(t, e) == <<"Result", t, e>>
Future(t) == <<"Future", t>>
Ref(t) == <<"Reference", t>>
RefMut(t) == <<"MutReference", t>>

Unit == T("Unit")
Bool == T("Bool")
SInt == T("Int")
UInt == T("UInt")
Byte == T("u8")
Str == T("Str")
Text == T("String")
Dur == T("Duration")
PathT == T("Path")
JsonT == T("Json")
Infer == T("Infer")
Bytes == List(Byte)
Secret == T("SecretBytes")
Addr == T("SocketAddress")
Elem == Text
MapT == <<"Map", Text, Elem>>
SetT == <<"Set", Elem>>

\* Sets of types an argument position accepts.
AnyText == {Text, Str}
AnyInt == {SInt, UInt, Byte}
ByteSeq == {Bytes, Slice(Byte)}

IoErr(t) == Result(t, T("IoError"))
NetErr(t) == Result(t, T("NetworkError"))
HttpErr(t) == Result(t, T("HttpError"))
DataErr(t) == Result(t, T("DataError"))
CryptoErr(t) == Result(t, T("CryptoError"))
ConvErr(t) == Result(t, T("ConversionError"))
TextErr(t) == Result(t, Text)
=============================================================================
