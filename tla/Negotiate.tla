----------------------------- MODULE Negotiate -----------------------------
(***************************************************************************)
(* The choice of algorithms in core/ssh.c: what the client's KEXINIT       *)
(* offers, and what handle_kexinit settles on from the server's.  A        *)
(* KEXINIT is a record of the sequences of names in it.                    *)
(***************************************************************************)
EXTENDS Integers, Sequences, SequencesExt

None == "none"

\* The algorithms there is code for, and the orders in which they are offered.  The names
\* without a domain stand for those with one.
KEXES == {"curve25519-sha256", "curve25519-sha256@libssh.org", "ecdh-sha2-nistp256",
    "ecdh-sha2-nistp384", "ecdh-sha2-nistp521", "diffie-hellman-group-exchange-sha256",
    "diffie-hellman-group16-sha512", "diffie-hellman-group14-sha256",
    "diffie-hellman-group14-sha1"}
DEF_KEX == <<"curve25519-sha256", "curve25519-sha256@libssh.org", "ecdh-sha2-nistp256",
    "ecdh-sha2-nistp384", "ecdh-sha2-nistp521", "diffie-hellman-group-exchange-sha256",
    "diffie-hellman-group16-sha512", "diffie-hellman-group14-sha256",
    "diffie-hellman-group14-sha1">>
DEF_HOSTKEY == <<"ssh-ed25519", "ecdsa-sha2-nistp256", "ecdsa-sha2-nistp384",
    "ecdsa-sha2-nistp521", "rsa-sha2-512", "rsa-sha2-256", "ssh-rsa">>
AEAD == {"chacha20-poly1305", "aes256-gcm", "aes128-gcm"}
CIPHERS == AEAD \cup {"aes256-ctr", "aes192-ctr", "aes128-ctr", "aes256-cbc", "aes192-cbc",
    "aes128-cbc", "blowfish-cbc", "3des-cbc"}
DEF_CIPHERS == <<"chacha20-poly1305", "aes256-gcm", "aes128-gcm", "aes256-ctr", "aes192-ctr",
    "aes128-ctr", "aes256-cbc", "aes192-cbc", "aes128-cbc", "blowfish-cbc", "3des-cbc">>
MACS == {"sha2-256-etm", "sha2-512-etm", "sha1-etm", "sha1-96-etm", "md5-etm", "md5-96-etm",
    "sha2-256", "sha2-512", "sha1", "sha1-96", "md5", "md5-96"}
DEF_MACS == <<"sha2-256-etm", "sha2-512-etm", "sha1-etm", "sha2-256", "sha2-512", "sha1",
    "sha1-96-etm", "md5-etm", "md5-96-etm", "sha1-96", "md5", "md5-96">>

\* What the application prefers, Unset where it does not: ssh_set_prefs, ssh_set_kex_prefs.
Unset == <<None>>
Or(pref, default) == IF pref = Unset THEN default ELSE pref
\* One cipher first and the others behind it; none, or one there is no code for, and the
\* default order is back.
ssh_prefer_cipher(cipher) ==
    IF cipher \in CIPHERS
    THEN <<cipher>> \o SelectSeq(DEF_CIPHERS, LAMBDA name : name # cipher)
    ELSE Unset

\* The markers behind the key exchange methods are no methods, and come once.
send_kexinit(prefs, first) ==
    LET ciphers == Or(prefs.ciphers, DEF_CIPHERS)
        macs == Or(prefs.macs, DEF_MACS)
    IN  [kex |-> Or(prefs.kex, DEF_KEX) \o IF first THEN <<"ext-info-c", "kex-strict-c">> ELSE <<>>,
         hostkey |-> DEF_HOSTKEY, cipher_c2s |-> ciphers, cipher_s2c |-> ciphers,
         mac_c2s |-> macs, mac_s2c |-> macs, comp_c2s |-> <<None>>, comp_s2c |-> <<None>>]

namelist_has(list, name) == Contains(list, name)
\* The client's order wins.
\* A mutant: the server's does.
negotiate_server(client, server) ==
    LET common == SelectSeq(server, LAMBDA name : namelist_has(client, name))
    IN  IF common = <<>> THEN None ELSE Head(common)
negotiate(client, server) ==
    LET common == SelectSeq(client, LAMBDA name : namelist_has(server, name))
    IN  IF common = <<>> THEN None ELSE Head(common)
\* And what is settled must be known here.
find(known, name) == IF name \in known THEN name ELSE None
cipher_is_aead(cipher) == cipher \in AEAD

\* handle_kexinit, from the offer o: what is settled, or that the session fails.  A cipher
\* that authenticates takes no MAC from the list.
handle_kexinit(prefs, o) ==
    LET ciphers == Or(prefs.ciphers, DEF_CIPHERS)
        macs == Or(prefs.macs, DEF_MACS)
        c2s == find(CIPHERS, negotiate(ciphers, o.cipher_c2s))
        s2c == find(CIPHERS, negotiate(ciphers, o.cipher_s2c))
        Mac(cipher, list) == IF cipher_is_aead(cipher) THEN "implicit"
                             ELSE find(MACS, negotiate(macs, list))
        settled == [kex |-> find(KEXES, negotiate(Or(prefs.kex, DEF_KEX), o.kex)),
                    hostkey |-> negotiate(DEF_HOSTKEY, o.hostkey), c2s |-> c2s, s2c |-> s2c,
                    mac_c2s |-> Mac(c2s, o.mac_c2s), mac_s2c |-> Mac(s2c, o.mac_s2c)]
    IN  [fails |-> (\E part \in DOMAIN settled : settled[part] = None)
                   \/ ~namelist_has(o.comp_c2s, None),
         settled |-> settled]
=============================================================================
