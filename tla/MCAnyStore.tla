----------------------------- MODULE MCAnyStore -----------------------------
EXTENDS AnyStore

MCSize    == <<1, 1>>
MCVersion == <<1, 2>>
=============================================================================
