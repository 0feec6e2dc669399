------------------------------- MODULE MCAudit -------------------------------
(* Small instances of Audit for TLC: Audit with the constants of MCPipeline. *)
EXTENDS AuditInv, MCPipeline

BothOpts == {KeyOpts, StrictOpts}
AllOpts == {KeyOpts, StrictOpts, BundleOpts}
CertConfs == {[PlainConf(k1) EXCEPT !.embedcert = TRUE]}
DefaultOpts == {KeyOpts}
=============================================================================
