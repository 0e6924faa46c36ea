--------------------- MODULE MCCloudflareEvidenceBatch ---------------------
(* One delegation retried by one caller, two workers and two slots, one of  *)
(* them under a key that another writer may use too.                        *)
EXTENDS CloudflareEvidenceBatch

SharedSlots == {2}
=============================================================================
