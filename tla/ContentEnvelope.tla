--------------------------- MODULE ContentEnvelope ---------------------------
(***************************************************************************)
(* Values as a sealed store holds them: crates/core/crypto/src/content.rs  *)
(* and plugin_keys/store_seal.rs.  A TEXT cell is NULL, plaintext,         *)
(* plaintext behind the escape of a keyless store, or an envelope that     *)
(* opens under one key at one place only.  A text in Lookalikes begins     *)
(* like an envelope although somebody typed it.                            *)
(***************************************************************************)

CONSTANTS
    Keys,        \* root keys
    Places,      \* ContentContexts: a column and a row
    Texts,       \* what can be stored
    Lookalikes   \* the texts that begin with "encb:"

Null == [form |-> "null"]
Plain(t) == [form |-> "plain", text |-> t]
Escaped(t) == [form |-> "escaped", text |-> t]
Sealed(t, k, p) == [form |-> "sealed", text |-> t, key |-> k, place |-> p]

Stored == {Null} \cup {Plain(t) : t \in Texts} \cup {Escaped(t) : t \in Texts}
          \cup {Sealed(t, k, p) : t \in Texts, k \in Keys, p \in Places}

\* A ContentCipher: it seals under current and opens under retired too.
Ciphers == [current : Keys, retired : SUBSET Keys]

\* ContentCipher::with_retired_roots drops the current root and repetitions.
CipherOf(root, roots) == [current |-> root, retired |-> roots \ {root}]

MatchKcv(c, kcv) ==
    IF kcv = c.current THEN "current"
    ELSE IF kcv \in c.retired THEN "retired" ELSE "unknown"

SealText(c, t, p) == Sealed(t, c.current, p)

LooksSealed(s) == s.form = "sealed" \/ (s.form = "plain" /\ s.text \in Lookalikes)

(***************************************************************************)
(* ContentCipher::open_text: the text and whether to write it back sealed, *)
(* or a ContentSealError.                                                  *)
(***************************************************************************)
Opens(c, s, p) == s.place = p /\ s.key \in {c.current} \cup c.retired

NoText == [ok |-> FALSE]
Opened(t, reseal) == [ok |-> TRUE, text |-> t, reseal |-> reseal]

OpenText(c, s, p) ==
    IF s.form = "sealed"
    THEN IF Opens(c, s, p) THEN Opened(s.text, s.key # c.current) ELSE NoText
    ELSE IF LooksSealed(s) THEN NoText ELSE Opened(s.text, TRUE)

(***************************************************************************)
(* StoreSeal: a store seals, is kept in the clear by a process without a   *)
(* key, or refuses writes.                                                 *)
(***************************************************************************)
Modes == {"sealing", "compat", "unhealthy"}

\* PluginKeys::store_state for a process that holds no key.
KeylessMode(kcv, noKcv) == IF kcv = noKcv THEN "compat" ELSE "unhealthy"

Writable(mode) == mode # "unhealthy"

\* Mutant: a store without a key keeps every text as it is.
StoresVerbatim(mode, c, t, p) == IF mode = "sealing" THEN SealText(c, t, p) ELSE Plain(t)

StoreSealText(mode, c, t, p) ==
    CASE mode = "sealing" -> SealText(c, t, p)
      [] mode = "compat"  -> IF t \in Lookalikes THEN Escaped(t) ELSE Plain(t)

StoreOpenText(mode, c, s, p) ==
    IF s.form = "escaped" THEN Opened(s.text, mode = "sealing")
    ELSE IF mode = "sealing" THEN OpenText(c, s, p)
    ELSE IF LooksSealed(s) THEN NoText ELSE Opened(s.text, FALSE)

(***************************************************************************)
(* reseal_value: what the migration puts in a cell, or that it leaves the  *)
(* cell alone because it is sealed already or does not open.               *)
(***************************************************************************)
Reseals(c, s, p) == s.form # "null" /\ OpenText(c, s, p).ok /\ OpenText(c, s, p).reseal
Unreadable(c, s, p) == s.form # "null" /\ ~OpenText(c, s, p).ok
Resealed(c, s, p) == IF Reseals(c, s, p) THEN SealText(c, s.text, p) ELSE s
===============================================================================
