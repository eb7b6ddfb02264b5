------------------------------ MODULE MCPanels ------------------------------
(* The instance of MCRaffleSale with the receipts and the panels.           *)
EXTENDS MCRaffleSale, Panels
=============================================================================
