SPECIFICATION KSpec
CONSTANTS
    scsi = scsi
    disk = disk
    ata = ata
    first = first
    second = second
    NoModule = NoModule
    Module <- MCModule
    Archive <- MCArchive
    Depends <- MCDepends
    RootFiles <- MCRootFiles
    TarFiles <- MCTarFiles
    BootFiles <- MCBootFiles
INVARIANTS
    CopiedModulesLoaded
