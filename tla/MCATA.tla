------------------------------- MODULE MCATA -------------------------------
EXTENDS ATA

CONSTANTS d1, d2, junk

MCBlocks == {0, 1}
MCData   == {d1, d2}
MCSignatures == {"Ata", "Atapi", "Sata", "Other"}
AllFaults    == {"absent", "floating", "abort", "media"}

\* the block device that keeps what it has taken
Strict == INSTANCE BlockDevice WITH Opened <- Responses, Lossy <- FALSE,
              store <- IF plan # <<>> THEN before ELSE Settled

\* A write that answered Ok is kept: Bus::write tests ERR after the last word
\* of the sector, and disk_api.rs takes Ok to mean the block is written.
KeepsWhatItAnswered == Strict!Spec
=============================================================================
