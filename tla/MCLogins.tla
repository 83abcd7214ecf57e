-------------------------------- MODULE MCLogins --------------------------------
(* Two connections, and objects that are created up to twice, with one      *)
(* property beside those of the supervisor, or three when it is deleted.    *)
EXTENDS FrommelLogins

Symmetry == Permutations(Conn)
MCAccess == "object" :> {<<1, 3>>} @@ "PASSWORD" :> {}
              @@ "SECURITY_EQUALS" :> {<<2, 3>>, <<2, 1>>} @@ "OBJ_SUPERVISORS" :> {<<2, 3>>}
MCRaw == {{1}}
MCSetProp == {"SECURITY_EQUALS", "OBJ_SUPERVISORS"}
AllProps  == MCSetProp \cup {"MANAGERS"}
AllAccess == MCAccess @@ "MANAGERS" :> {<<2, 3>>}
=============================================================================
