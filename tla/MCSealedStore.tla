---------------------------- MODULE MCSealedStore ----------------------------
EXTENDS SealedStore
CONSTANTS k1, k2, lost, word, lookalike
\* A key, the key that replaced it, and the new key without the retired one.
RotatedRings == {[current |-> k1, retired |-> {}], [current |-> k2, retired |-> {k1}],
                 [current |-> k2, retired |-> {}]}
FirstLost == {{}, {<<1, 1>>}}
OneEmpty == {{<<2, 1>>}}
None == {{}}
===============================================================================
