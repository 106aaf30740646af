---------------------------- MODULE BundleCodec ----------------------------
(***************************************************************************)
(* The account key bundle's two codecs: the server's, which decides what   *)
(* is stored (backend account/bundle-codec.mjs, auth/codec.mjs), and the   *)
(* SDK's, which builds what is published and decides what the extension    *)
(* opens (sdk account-bundle-codec.ts, b64.ts).  They are two programs     *)
(* that are meant to agree.  A wire value is a record of what either of    *)
(* them looks at.                                                          *)
(***************************************************************************)
EXTENDS Naturals

\* Classes of lengths: 0 is empty, MaxBytes the limit of the field, one more over it.
MaxBytes == 1
Length == 0 .. MaxBytes + 1

\* A base64 text by what a decoder makes of it.
B64 == {"padded", "unpadded", "alphabet", "prefix"}
Field == [b64 : B64, length : Length]

Wire == [b64 : B64, length : Length,            \* the outer wire value
         utf8 : BOOLEAN,                        \* its bytes are UTF-8
         json : {"object", "array", "syntax"},  \* JSON.parse of them
         keys : {"exact", "missing", "extra"},
         strings : BOOLEAN,                     \* every value is a string
         format : BOOLEAN, ids : BOOLEAN,       \* ACCOUNT_BUNDLE_FORMAT, ID_PATTERN
         owner : BOOLEAN,                       \* accountId is the session's
         kdf : Field, wrapper : Field,          \* one wrapper for the four
         fixed : BOOLEAN]                       \* key order and spacing of JSON.stringify

\* buildAccountBundle, of the fields the onboarding has: ids of UUIDs and "vault-key",
\* and the Worker's KDF parameters and wrappers, of fixed sizes below their limits.
Built == [b64 |-> "padded", length |-> 1, utf8 |-> TRUE, json |-> "object", keys |-> "exact",
          strings |-> TRUE, format |-> TRUE, ids |-> TRUE, owner |-> TRUE,
          kdf |-> [b64 |-> "padded", length |-> 1], wrapper |-> [b64 |-> "padded", length |-> 1],
          fixed |-> TRUE]

InRange(n) == n \in 1 .. MaxBytes

\* The ids and the byte strings a bundle is built of are as the two codecs want them.
Fits(t) == t.ids /\ InRange(t.kdf.length) /\ InRange(t.wrapper.length)

\* What buildAccountBundle makes of any fields: it checks none.  Fields that fit make
\* less than MAX_OUTER_BYTES together.
Builds ==
    {t \in Wire : /\ t.b64 = "padded" /\ t.utf8 /\ t.json = "object" /\ t.keys = "exact"
                  /\ t.strings /\ t.format /\ t.fixed
                  /\ t.kdf.b64 = "padded" /\ t.wrapper.b64 = "padded"
                  /\ t.length > 0 /\ (Fits(t) => InRange(t.length))}

\* B64_PATTERN, of both codecs: the prefix, one digit or more, at most two pads.
B64Pattern(f) == f.b64 \notin {"alphabet", "prefix"} /\ f.length > 0

\* decodeB64 of the server: the length has to be a multiple of four.
ServerDecodes(f) == f.b64 = "padded"

\* decodeB64 of the SDK: atob also takes a text without its padding.
ClientDecodes(f) == f.b64 \in {"padded", "unpadded"}

\* The checks of the parsed object, the same in both.
FieldsValid(t) ==
    /\ t.json = "object" /\ t.keys = "exact" /\ t.strings
    /\ t.format /\ t.ids

\* Fault: does not reproduce the record.
Trusted(t) == TRUE

\* The record serialised again in the fixed order has the bytes that were received.
\* Bytes that are not UTF-8 do not survive.
Reproduced(t) == t.fixed /\ t.utf8

\* validateAccountBundleBytes.  Bytes that are not UTF-8 decode all the same.
ValidateAccountBundleBytes(t) ==
    /\ InRange(t.length)
    /\ FieldsValid(t)
    /\ \A f \in {t.kdf, t.wrapper} : B64Pattern(f) /\ ServerDecodes(f) /\ InRange(f.length)
    /\ Reproduced(t)

\* parseAccountBundle: a fatal TextDecoder, otherwise in the same order.
ParseAccountBundle(t) ==
    /\ B64Pattern(t) /\ ClientDecodes(t) /\ InRange(t.length)
    /\ t.utf8
    /\ FieldsValid(t)
    /\ \A f \in {t.kdf, t.wrapper} : B64Pattern(f) /\ ClientDecodes(f) /\ InRange(f.length)
    /\ t.fixed

\* encodeB64 of the stored bytes, which GET answers.
Served(t) == [t EXCEPT !.b64 = "padded"]

\* The texts that one change makes of a built one.
Text ==
    {[Built EXCEPT !.b64 = x] : x \in B64} \cup {[Built EXCEPT !.length = n] : n \in Length}
    \cup {[Built EXCEPT !.utf8 = FALSE], [Built EXCEPT !.strings = FALSE], [Built EXCEPT !.format = FALSE],
          [Built EXCEPT !.ids = FALSE], [Built EXCEPT !.owner = FALSE], [Built EXCEPT !.fixed = FALSE],
          [Built EXCEPT !.json = "array"], [Built EXCEPT !.json = "syntax"],
          [Built EXCEPT !.keys = "missing"], [Built EXCEPT !.keys = "extra"]}
    \cup {[Built EXCEPT !.kdf.length = n] : n \in Length} \cup {[Built EXCEPT !.wrapper.b64 = x] : x \in B64}
=============================================================================
