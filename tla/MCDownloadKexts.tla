--------------------------- MODULE MCDownloadKexts ---------------------------
EXTENDS DownloadKexts

\* OpenCorePkg with two of its five files, Lilu with its single one.
MCComponents == << <<"BOOTx64", "OpenCore">>, <<"Lilu">> >>
=============================================================================
