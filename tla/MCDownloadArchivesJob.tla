------------------------ MODULE MCDownloadArchivesJob ------------------------
\* A checked archive, one without a downloader, and one without a checksum.
EXTENDS DownloadArchivesJob

CONSTANTS first, second, unknown

MCList == <<first, unknown, second>>
MCUnchecked == <<second>>
MCGone == <<second, unknown>>
=============================================================================
