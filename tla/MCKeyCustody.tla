---------------------------- MODULE MCKeyCustody ----------------------------
EXTENDS KeyCustody
CONSTANTS k1, k2, k3, e1

Folder(s, c, m, l, r, kinds, key) ==
    [slot |-> s, chain |-> c, master |-> m, legacy |-> l, recorded |-> r, kinds |-> kinds, key |-> key]

\* A new folder; messages from before the record, under the keychain's key or the
\* legacy file's; a folder copied to a machine with another key, recorded and not; and
\* the desktop's slot, new, and copied to a machine with another key.
AllFolders ==
    {Folder("master", NoKey, NoKey, NoKey, NoKey, {}, NoKey),
     Folder("master", k1, NoKey, NoKey, NoKey, {"message"}, k1),
     Folder("master", NoKey, NoKey, k1, NoKey, {"message"}, k1),
     Folder("master", k2, k1, NoKey, k1, {"message", "store"}, k1),
     Folder("master", k2, k1, NoKey, NoKey, {"message"}, k1),
     Folder("app", NoKey, NoKey, NoKey, NoKey, {}, NoKey),
     Folder("app", k2, k1, NoKey, NoKey, {"app"}, k1),
     Folder("app", k1, k2, NoKey, NoKey, {"app"}, k1)}

\* Two processes start on a new folder.
NewFolder == {Folder("master", NoKey, NoKey, NoKey, NoKey, {}, NoKey)}
NoBundles == {}

\* What comes after a mishap is not looked at further.
Undisturbed == ~mishap

OneBundle == {[current |-> k3, retired |-> {k1}]}
===============================================================================
